---- MODULE Spec2Model ----
(***************************************************************************)
(* cc-bridge: routing, session lifecycle and access control.               *)
(*                                                                         *)
(* The persistent store (BridgeDatabase, SQLite) is modelled table by      *)
(* table as sets of rows; the managers (PairingManager, AllowlistManager,  *)
(* SessionManager) are modelled operation by operation on those tables.    *)
(* Strings that the code transforms character by character (pairing        *)
(* codes, user names, allowFrom entries) are sequences of one-character    *)
(* strings.                                                                *)
(***************************************************************************)
EXTENDS Integers, Sequences, FiniteSets, TLC

VARIABLES
    pairing_requests,   \* table pairing_requests: set of rows, PRIMARY KEY code
    allowlist,          \* table allowlist: set of rows, PRIMARY KEY chat_key
    now,                \* the wall clock (new Date()), in milliseconds
    ticks,              \* how many times the clock was advanced
    call,               \* the operation invoked by the last step, with its arguments
    ret,                \* what that operation returned
    consumed,           \* history: codes (as typed) whose approve/reject succeeded,
                        \* and which were not issued again since
    sessions,           \* table sessions: set of rows, UNIQUE(chat_key, session_name)
    nextId,             \* the AUTOINCREMENT sequence of sessions.id
    active_sessions,    \* table active_sessions: set of rows, PRIMARY KEY chat_key
    activeSessions,     \* SessionManager.activeSessions: Map fullKey -> CachedSession
    turns,              \* the sendMessage generators: per slot, position and locals
    recorded            \* history: per (chatKey, sessionName), the handle of the result
                        \* event of the last turn that ended with done; cleared when
                        \* the key is deleted, reset or created anew

pairingVars == <<pairing_requests, allowlist, consumed>>

sessionVars == <<sessions, nextId, active_sessions, activeSessions, turns, recorded>>

vars == <<pairing_requests, allowlist, now, ticks, call, ret, consumed,
          sessions, nextId, active_sessions, activeSessions, turns, recorded>>

----------------------------------------------------------------------------
(* Bounds and domains *)

MaxTicks == 2

ChatKeys == {"telegram:1", "telegram:1:work"}

UserIds == {<<"1">>}

\* Outcomes of randomBytes(3) the model draws from: 0xABCDEF and 0x123456.
RandomBytesPool == {<<171, 205, 239>>, <<18, 52, 86>>}

----------------------------------------------------------------------------
(* Pairing codes: src/security/pairing.ts (unnamed/part_012) *)

CODE_LENGTH == 6

DEFAULT_EXPIRY_MS == 3600000

HexDigits == <<"0", "1", "2", "3", "4", "5", "6", "7",
               "8", "9", "a", "b", "c", "d", "e", "f">>

\* Buffer.toString("hex"): two lower-case hex digits per byte.
RECURSIVE ToHex(_)
ToHex(bytes) ==
    IF bytes = <<>> THEN <<>>
    ELSE <<HexDigits[(Head(bytes) \div 16) + 1], HexDigits[(Head(bytes) % 16) + 1]>>
         \o ToHex(Tail(bytes))

UpperCaseLetters == <<"A", "B", "C", "D", "E", "F", "G", "H", "I", "J", "K", "L", "M",
                      "N", "O", "P", "Q", "R", "S", "T", "U", "V", "W", "X", "Y", "Z">>

LowerCaseLetters == <<"a", "b", "c", "d", "e", "f", "g", "h", "i", "j", "k", "l", "m",
                      "n", "o", "p", "q", "r", "s", "t", "u", "v", "w", "x", "y", "z">>

UpperChar(c) ==
    IF \E i \in DOMAIN LowerCaseLetters : LowerCaseLetters[i] = c
    THEN UpperCaseLetters[CHOOSE i \in DOMAIN LowerCaseLetters : LowerCaseLetters[i] = c]
    ELSE c

LowerChar(c) ==
    IF \E i \in DOMAIN UpperCaseLetters : UpperCaseLetters[i] = c
    THEN LowerCaseLetters[CHOOSE i \in DOMAIN UpperCaseLetters : UpperCaseLetters[i] = c]
    ELSE c

\* String.prototype.toUpperCase
toUpperCase(s) == [i \in DOMAIN s |-> UpperChar(s[i])]

toLowerCase(s) == [i \in DOMAIN s |-> LowerChar(s[i])]

\* String.prototype.slice(0, n)
Slice0(s, n) == SubSeq(s, 1, IF Len(s) < n THEN Len(s) ELSE n)

\* Math.ceil(CODE_LENGTH / 2)
CodeBytes == (CODE_LENGTH + 1) \div 2

\* randomBytes(..).toString("hex").toUpperCase().slice(0, CODE_LENGTH)
MakeCode(bytes) == Slice0(toUpperCase(ToHex(bytes)), CODE_LENGTH)

IssuedCodes == {MakeCode(b) : b \in RandomBytesPool}

\* What an operator may type or a client may send as :code.
TypedCodes == IssuedCodes \cup {toLowerCase(c) : c \in IssuedCodes}

----------------------------------------------------------------------------
(* BridgeDatabase, pairing and allowlist tables: src/db/sqlite.ts
   (unnamed/part_007) *)

\* SELECT * FROM pairing_requests WHERE code = ?   (BINARY collation)
PairingRowsWithCode(code) == {r \in pairing_requests : r.code = code}

NoRequest == [code |-> <<>>, chatKey |-> "", userId |-> "", createdAt |-> -1, expiresAt |-> -1]

getPairingRequest(code) ==
    IF PairingRowsWithCode(code) = {} THEN NoRequest
    ELSE CHOOSE r \in PairingRowsWithCode(code) : TRUE

\* DELETE FROM pairing_requests WHERE code = ?
deletePairingRequest(table, code) == {r \in table : r.code # code}

\* A store whose expired rows are never reaped.
cleanupExpiredPairingRequests_Keep(table, t) == table

\* DELETE FROM pairing_requests WHERE expires_at < now
cleanupExpiredPairingRequests(table, t) == {r \in table : ~(r.expiresAt < t)}

\* SELECT * FROM pairing_requests WHERE expires_at > now
listPendingPairingRequests == {r \in pairing_requests : r.expiresAt > now}

\* INSERT INTO pairing_requests: fails on a duplicate primary key.
CanInsertPairing(table, code) == \A r \in table : r.code # code

savePairingRequest(table, code, chatKey, userId, expiresInMs) ==
    table \cup {[code |-> code, chatKey |-> chatKey, userId |-> userId,
                 createdAt |-> now, expiresAt |-> now + expiresInMs]}

\* SELECT 1 FROM allowlist WHERE chat_key = ?
dbIsAllowed(chatKey) == \E a \in allowlist : a.chatKey = chatKey

\* INSERT OR IGNORE INTO allowlist
addToAllowlist(table, chatKey, addedBy) ==
    IF \E a \in table : a.chatKey = chatKey THEN table
    ELSE table \cup {[chatKey |-> chatKey, addedBy |-> addedBy]}

\* A removal that leaves the table as it is.
removeFromAllowlist_Keep(table, chatKey) == table

\* DELETE FROM allowlist WHERE chat_key = ?
removeFromAllowlist(table, chatKey) == {a \in table : a.chatKey # chatKey}

AllowedKeys(table) == {a.chatKey : a \in table}

----------------------------------------------------------------------------
(* Return values *)

NoHandle == <<"", "">>

RetFull(success, reason, chatKey, name, handle) ==
    [success |-> success, reason |-> reason, chatKey |-> chatKey,
     name |-> name, handle |-> handle]

Ret(success, reason, chatKey) == RetFull(success, reason, chatKey, "", NoHandle)

NotFoundReason == "Invalid or expired pairing code"

ExpiredReason == "Pairing code has expired"

Void == Ret(TRUE, "", "")

----------------------------------------------------------------------------
(* PairingManager *)

\* approve(code) without the expiry test.
ApproveOutcome_NoExpiry(code) ==
    LET request == getPairingRequest(toUpperCase(code)) IN
    IF request = NoRequest
    THEN [ret |-> Ret(FALSE, NotFoundReason, ""),
          requests |-> pairing_requests, allow |-> allowlist]
    ELSE [ret |-> Ret(TRUE, "", request.chatKey),
          requests |-> deletePairingRequest(pairing_requests, code),
          allow |-> addToAllowlist(allowlist, request.chatKey, "pairing")]

\* approve(code): the returned value and the two tables after the call.
ApproveOutcome(code) ==
    LET request == getPairingRequest(toUpperCase(code)) IN
    IF request = NoRequest
    THEN [ret |-> Ret(FALSE, NotFoundReason, ""),
          requests |-> pairing_requests, allow |-> allowlist]
    ELSE IF now > request.expiresAt
    THEN [ret |-> Ret(FALSE, ExpiredReason, ""),
          requests |-> deletePairingRequest(pairing_requests, code),
          allow |-> allowlist]
    ELSE [ret |-> Ret(TRUE, "", request.chatKey),
          requests |-> deletePairingRequest(pairing_requests, code),
          allow |-> addToAllowlist(allowlist, request.chatKey, "pairing")]

\* reject(code)
RejectOutcome(code) ==
    LET request == getPairingRequest(toUpperCase(code)) IN
    IF request = NoRequest
    THEN [ret |-> Ret(FALSE, "", ""), requests |-> pairing_requests]
    ELSE [ret |-> Ret(TRUE, "", ""),
          requests |-> deletePairingRequest(pairing_requests, code)]

\* generateCode(chatKey, userInfo, expiresInMs): reap, draw a code, insert.
\* A draw that repeats a stored code makes the INSERT throw after the reap.
GenerateOutcome(chatKey, userId, expiresInMs, bytes) ==
    LET reaped == cleanupExpiredPairingRequests(pairing_requests, now)
        code   == MakeCode(bytes) IN
    IF CanInsertPairing(reaped, code)
    THEN [ret |-> Ret(TRUE, "", chatKey), code |-> code,
          requests |-> savePairingRequest(reaped, code, chatKey, userId, expiresInMs)]
    ELSE [ret |-> Ret(FALSE, "SQLITE_CONSTRAINT", chatKey), code |-> code,
          requests |-> reaped]

Call(op, code, chatKey) == [op |-> op, code |-> code, chatKey |-> chatKey]

\* What generateCode does to the store.
generateCodeEffect(chatKey, userId, expiresInMs, bytes) ==
    LET out == GenerateOutcome(chatKey, userId, expiresInMs, bytes) IN
    /\ pairing_requests' = out.requests
    /\ consumed' = IF out.ret.success
                   THEN {c \in consumed : toUpperCase(c) # out.code}
                   ELSE consumed
    /\ UNCHANGED allowlist

generateCode(chatKey, userId, expiresInMs, bytes) ==
    LET out == GenerateOutcome(chatKey, userId, expiresInMs, bytes) IN
    /\ generateCodeEffect(chatKey, userId, expiresInMs, bytes)
    /\ call' = Call("generateCode", out.code, chatKey)
    /\ ret' = out.ret
    /\ UNCHANGED <<now, ticks, sessionVars>>

\* generateCode, its log entry also naming the codes its reap deleted.
generateCodeCall(chatKey, userId, expiresInMs, bytes) ==
    LET out == GenerateOutcome(chatKey, userId, expiresInMs, bytes) IN
    /\ generateCodeEffect(chatKey, userId, expiresInMs, bytes)
    /\ call' = Call("generateCode", out.code, chatKey)
    /\ ret' = [success |-> out.ret.success, reason |-> out.ret.reason,
               chatKey |-> chatKey,
               reaped |-> {r.code : r \in pairing_requests
                              \ cleanupExpiredPairingRequests(pairing_requests, now)}]
    /\ UNCHANGED <<now, ticks, sessionVars>>

approve(code) ==
    LET out == ApproveOutcome(code) IN
    /\ pairing_requests' = out.requests
    /\ allowlist' = out.allow
    /\ call' = Call("approve", code, "")
    /\ ret' = out.ret
    /\ consumed' = IF out.ret.success THEN consumed \cup {code} ELSE consumed
    /\ UNCHANGED <<now, ticks, sessionVars>>

reject(code) ==
    LET out == RejectOutcome(code) IN
    /\ pairing_requests' = out.requests
    /\ call' = Call("reject", code, "")
    /\ ret' = out.ret
    /\ consumed' = IF out.ret.success THEN consumed \cup {code} ELSE consumed
    /\ UNCHANGED <<allowlist, now, ticks, sessionVars>>

\* PairingManager.cleanup()
cleanup ==
    /\ pairing_requests' = cleanupExpiredPairingRequests(pairing_requests, now)
    /\ call' = Call("cleanup", <<>>, "")
    /\ ret' = Void
    /\ UNCHANGED <<allowlist, now, ticks, consumed, sessionVars>>

----------------------------------------------------------------------------
(* AllowlistManager.add / remove: src/security/allowlist.ts *)

add(chatKey) ==
    /\ allowlist' = addToAllowlist(allowlist, chatKey, "manual")
    /\ call' = Call("add", <<>>, chatKey)
    /\ ret' = Void
    /\ UNCHANGED <<pairing_requests, now, ticks, consumed, sessionVars>>

remove(chatKey) ==
    /\ allowlist' = removeFromAllowlist(allowlist, chatKey)
    /\ call' = Call("remove", <<>>, chatKey)
    /\ ret' = Void
    /\ UNCHANGED <<pairing_requests, now, ticks, consumed, sessionVars>>

----------------------------------------------------------------------------
(* The clock *)

TickSteps == {1, DEFAULT_EXPIRY_MS}

Tick(d) ==
    /\ ticks < MaxTicks
    /\ now' = now + d
    /\ ticks' = ticks + 1
    /\ UNCHANGED <<pairingVars, sessionVars>>

----------------------------------------------------------------------------
(* Session handles *)

SessionNames == {"main", "work"}

AgentIds == {"main", "coder"}

\* An options.agentId that names no configured agent.
UnknownAgent == "ghost"

NoAgent == ""

\* Math.random().toString(36).slice(2, 8): the draws the model uses.
PlaceholderRandoms == {"k3x9a1"}

\* Session ids the execution port reports in result events.
SdkSessionIds == {"uuid-1", "uuid-2"}

\* A handle is <<prefix, rest>>: startsWith("ccb-") reads the prefix.
\* `ccb-${Date.now()}-${Math.random().toString(36).slice(2, 8)}`
Placeholder(t, rnd) == <<"ccb-", <<t, rnd>>>>

SdkHandle(id) == <<"", id>>

startsWithCcb(h) == h[1] = "ccb-"

\* agent.workspace of the configured agent
Workspace(agentId) == "/ws/" \o agentId

----------------------------------------------------------------------------
(* BridgeDatabase, sessions and active_sessions tables *)

\* SELECT * FROM sessions WHERE chat_key = ? AND session_name = ?
SessionRows(table, chatKey, sessionName) ==
    {r \in table : r.chatKey = chatKey /\ r.sessionName = sessionName}

NoSession ==
    [id |-> 0, chatKey |-> "", sessionName |-> "", sdkSessionId |-> NoHandle,
     agentId |-> "", workspace |-> "", createdAt |-> -1, lastActive |-> -1]

getSession(chatKey, sessionName) ==
    IF SessionRows(sessions, chatKey, sessionName) = {} THEN NoSession
    ELSE CHOOSE r \in SessionRows(sessions, chatKey, sessionName) : TRUE

\* INSERT INTO sessions without the conflict clause, on a table without the
\* UNIQUE constraint.
saveSession_PlainInsert(table, id, chatKey, sdkSessionId, agentId, sessionName) ==
    table \cup {[id |-> id, chatKey |-> chatKey, sessionName |-> sessionName,
                 sdkSessionId |-> sdkSessionId, agentId |-> agentId,
                 workspace |-> Workspace(agentId),
                 createdAt |-> now, lastActive |-> now]}

\* The upsert that does not take the new handle on conflict.
saveSession_KeepHandle(table, id, chatKey, sdkSessionId, agentId, sessionName) ==
    IF SessionRows(table, chatKey, sessionName) # {}
    THEN {IF r \in SessionRows(table, chatKey, sessionName)
          THEN [r EXCEPT !.lastActive = now]
          ELSE r : r \in table}
    ELSE saveSession_PlainInsert(table, id, chatKey, sdkSessionId, agentId, sessionName)

\* An upsert that on conflict also takes the agent and workspace passed.
saveSession_Overwrite(table, id, chatKey, sdkSessionId, agentId, sessionName) ==
    IF SessionRows(table, chatKey, sessionName) # {}
    THEN {IF r \in SessionRows(table, chatKey, sessionName)
          THEN [r EXCEPT !.sdkSessionId = sdkSessionId, !.lastActive = now,
                         !.agentId = agentId, !.workspace = Workspace(agentId)]
          ELSE r : r \in table}
    ELSE table \cup {[id |-> id, chatKey |-> chatKey, sessionName |-> sessionName,
                      sdkSessionId |-> sdkSessionId, agentId |-> agentId,
                      workspace |-> Workspace(agentId),
                      createdAt |-> now, lastActive |-> now]}

\* INSERT INTO sessions ... ON CONFLICT(chat_key, session_name) DO UPDATE SET
\* sdk_session_id = excluded.sdk_session_id, last_active = excluded.last_active
saveSession(table, id, chatKey, sdkSessionId, agentId, sessionName) ==
    IF SessionRows(table, chatKey, sessionName) # {}
    THEN {IF r \in SessionRows(table, chatKey, sessionName)
          THEN [r EXCEPT !.sdkSessionId = sdkSessionId, !.lastActive = now]
          ELSE r : r \in table}
    ELSE table \cup {[id |-> id, chatKey |-> chatKey, sessionName |-> sessionName,
                      sdkSessionId |-> sdkSessionId, agentId |-> agentId,
                      workspace |-> Workspace(agentId),
                      createdAt |-> now, lastActive |-> now]}

\* The sequence advances when a row is inserted.
NextIdAfter(before, after) ==
    IF Cardinality(after) > Cardinality(before) THEN nextId + 1 ELSE nextId

\* UPDATE sessions SET last_active = ? WHERE chat_key = ? AND session_name = ?
updateSessionActivity(table, chatKey, sessionName) ==
    {IF r \in SessionRows(table, chatKey, sessionName)
     THEN [r EXCEPT !.lastActive = now]
     ELSE r : r \in table}

\* SELECT * FROM sessions WHERE chat_key = ?
listSessions(chatKey) == {r \in sessions : r.chatKey = chatKey}

\* DELETE FROM sessions WHERE chat_key = ? AND session_name = ?
dbDeleteSession(table, chatKey, sessionName) ==
    table \ SessionRows(table, chatKey, sessionName)

\* DELETE FROM sessions WHERE chat_key = ?
deleteAllSessionRows(table, chatKey) == {r \in table : r.chatKey # chatKey}

\* A reset that leaves the pointer of the chat.
deleteActivePointer_Keep(table, chatKey) == table

\* DELETE FROM active_sessions WHERE chat_key = ?
deleteActivePointer(table, chatKey) == {a \in table : a.chatKey # chatKey}

\* row?.session_name || "main"
getActiveSessionName(chatKey) ==
    IF \E a \in active_sessions : a.chatKey = chatKey
    THEN (CHOOSE a \in active_sessions : a.chatKey = chatKey).sessionName
    ELSE "main"

\* INSERT INTO active_sessions ... ON CONFLICT(chat_key) DO UPDATE
setActiveSession(table, chatKey, sessionName) ==
    {a \in table : a.chatKey # chatKey}
        \cup {[chatKey |-> chatKey, sessionName |-> sessionName]}

----------------------------------------------------------------------------
(* SessionManager: src/core/session-manager.ts *)

\* sessionName === "main" ? chatKey : `${chatKey}:${sessionName}`
fullKey(chatKey, sessionName) ==
    IF sessionName = "main" THEN chatKey ELSE chatKey \o ":" \o sessionName

CachedSession(id, agentId, chatKey, sessionName) ==
    [id |-> id, agentId |-> agentId, chatKey |-> chatKey, sessionName |-> sessionName]

\* Map.set
MapSet(map, k, v) == [x \in DOMAIN map \cup {k} |-> IF x = k THEN v ELSE map[x]]

\* Map.delete
MapDelete(map, k) == [x \in DOMAIN map \ {k} |-> map[x]]

EmptyMap == [x \in {} |-> NoHandle]

Slots == {1, 2}

MaxRowId == 2

MaxEvents == 1

IdleTurn ==
    [pc |-> "idle", chatKey |-> "", sessionName |-> "", agentId |-> NoAgent,
     resumeSessionId |-> NoHandle, resume |-> NoHandle, sessionId |-> NoHandle,
     result |-> NoHandle, events |-> 0, out |-> <<>>]

Chunk(type, text) == [type |-> type, text |-> text]

Key(chatKey, sessionName) == <<chatKey, sessionName>>

\* A direct-message chat of the Discord adapter: `discord:${message.author.id}`
DiscordChat == "discord:7"

Keys == (ChatKeys \cup {DiscordChat}) \X SessionNames

\* An insert takes the next id of the sequence; the model stops inserting
\* once the sequence has passed MaxRowId.
CanSave(chatKey, sessionName) ==
    SessionRows(sessions, chatKey, sessionName) # {} \/ nextId <= MaxRowId

Init ==
    /\ pairing_requests = {}
    /\ allowlist = {}
    /\ now = 0
    /\ ticks = 0
    /\ call = Call("init", <<>>, "")
    /\ ret = Void
    /\ consumed = {}
    /\ sessions = {}
    /\ nextId = 1
    /\ active_sessions = {}
    /\ activeSessions = EmptyMap
    /\ turns = [s \in Slots |-> IdleTurn]
    /\ recorded = [k \in Keys |-> NoHandle]

\* The operations of SessionManager say nothing of call and ret: a
\* specification either leaves the two alone (Quiet) or records them.
Quiet(A) == A /\ UNCHANGED <<call, ret>>

\* getOrCreateSession(chatKey, agentConfig, sessionName), createNewSession included
getOrCreateSession(chatKey, agentId, sessionName) ==
    LET fk == fullKey(chatKey, sessionName)
        existingSession == getSession(chatKey, sessionName) IN
    /\ CanSave(chatKey, sessionName)
    /\ IF fk \in DOMAIN activeSessions
       THEN UNCHANGED <<sessions, nextId, activeSessions>>
       ELSE IF existingSession # NoSession
       THEN /\ activeSessions' = MapSet(activeSessions, fk,
                   CachedSession(existingSession.sdkSessionId, agentId, chatKey, sessionName))
            /\ sessions' = updateSessionActivity(sessions, chatKey, sessionName)
            /\ UNCHANGED nextId
       ELSE \E rnd \in PlaceholderRandoms :
            LET sessionId == Placeholder(now, rnd) IN
            /\ sessions' = saveSession(sessions, nextId, chatKey, sessionId, agentId, sessionName)
            /\ nextId' = NextIdAfter(sessions, sessions')
            /\ activeSessions' = MapSet(activeSessions, fk,
                   CachedSession(sessionId, agentId, chatKey, sessionName))
    /\ UNCHANGED <<pairingVars, now, ticks, active_sessions, turns, recorded>>

\* A call of getOrCreateSession with the session it returns: the cached
\* entry, or the entry it has just cached.
getOrCreateSessionCall(chatKey, agentId, sessionName) ==
    /\ call' = [op |-> "getOrCreateSession", code |-> <<>>, chatKey |-> chatKey,
                sessionName |-> sessionName]
    /\ getOrCreateSession(chatKey, agentId, sessionName)
    /\ ret' = [success |-> TRUE,
               session |-> activeSessions'[fullKey(chatKey, sessionName)]]

\* createNamedSession(chatKey, name, agentId?): agentId names a configured
\* agent or is absent (then the first configured agent is taken).
FirstAgent == "main"

createNamedSession(chatKey, name, optAgentId) ==
    LET agentId == IF optAgentId = NoAgent THEN FirstAgent ELSE optAgentId IN
    /\ IF agentId \notin AgentIds
       THEN UNCHANGED <<sessions, nextId, active_sessions, recorded>>
       ELSE /\ CanSave(chatKey, name)
            /\ \E rnd \in PlaceholderRandoms :
                 LET sessionId == Placeholder(now, rnd) IN
                 /\ sessions' = saveSession(sessions, nextId, chatKey, sessionId, agentId, name)
            /\ nextId' = NextIdAfter(sessions, sessions')
            /\ active_sessions' = setActiveSession(active_sessions, chatKey, name)
            /\ recorded' = [recorded EXCEPT ![Key(chatKey, name)] = NoHandle]
    /\ UNCHANGED <<pairingVars, now, ticks, activeSessions, turns>>

\* A call of createNamedSession, with its arguments and the handle the row
\* of (chatKey, name) held before.
createNamedSessionCall(chatKey, name, optAgentId) ==
    /\ call' = [op |-> "createNamedSession", code |-> <<>>, chatKey |-> chatKey,
                sessionName |-> name, agentId |-> optAgentId]
    /\ ret' = [success |-> optAgentId \in AgentIds \cup {NoAgent},
               replaced |-> getSession(chatKey, name).sdkSessionId]
    /\ createNamedSession(chatKey, name, optAgentId)

\* A switch that does not look for the session first.
switchSession_Always(chatKey, sessionName) ==
    /\ active_sessions' = setActiveSession(active_sessions, chatKey, sessionName)
    /\ UNCHANGED <<pairingVars, now, ticks, sessions, nextId, activeSessions, turns, recorded>>

\* switchSession(chatKey, sessionName)
switchSession(chatKey, sessionName) ==
    /\ IF getSession(chatKey, sessionName) = NoSession
       THEN UNCHANGED active_sessions
       ELSE active_sessions' = setActiveSession(active_sessions, chatKey, sessionName)
    /\ UNCHANGED <<pairingVars, now, ticks, sessions, nextId, activeSessions, turns, recorded>>

\* What switchSession returns.
switchSessionReturns(chatKey, sessionName) == getSession(chatKey, sessionName) # NoSession

\* A call of switchSession, with its arguments and its result.
switchSessionCall(chatKey, sessionName) ==
    /\ call' = [op |-> "switchSession", code |-> <<>>, chatKey |-> chatKey,
                sessionName |-> sessionName]
    /\ ret' = [success |-> switchSessionReturns(chatKey, sessionName)]
    /\ switchSession(chatKey, sessionName)

\* deleteSession(chatKey, sessionName)
deleteSession(chatKey, sessionName) ==
    /\ activeSessions' = MapDelete(activeSessions, fullKey(chatKey, sessionName))
    /\ sessions' = dbDeleteSession(sessions, chatKey, sessionName)
    /\ recorded' = [recorded EXCEPT ![Key(chatKey, sessionName)] = NoHandle]
    /\ UNCHANGED <<pairingVars, now, ticks, nextId, active_sessions, turns>>

\* resetChat(chatKey)
resetChat(chatKey) ==
    LET evicted == {fullKey(chatKey, r.sessionName) : r \in listSessions(chatKey)} IN
    /\ activeSessions' = [k \in DOMAIN activeSessions \ evicted |-> activeSessions[k]]
    /\ sessions' = deleteAllSessionRows(sessions, chatKey)
    /\ active_sessions' = deleteActivePointer(active_sessions, chatKey)
    /\ recorded' = [k \in Keys |-> IF k[1] = chatKey THEN NoHandle ELSE recorded[k]]
    /\ UNCHANGED <<pairingVars, now, ticks, nextId, turns>>

\* A call of resetChat, with what it found: the rows of the chat, the
\* cache entries of the chat, the active session before the call and the
\* generators of the chat that are in flight.
resetChatCall(chatKey) ==
    /\ call' = Call("resetChat", <<>>, chatKey)
    /\ ret' = [success |-> TRUE,
               rows |-> {r.sessionName : r \in listSessions(chatKey)},
               cached |-> {activeSessions[k].sessionName :
                             k \in {x \in DOMAIN activeSessions :
                                       activeSessions[x].chatKey = chatKey}},
               active |-> getActiveSessionName(chatKey),
               inflight |-> {s \in Slots : /\ turns[s].pc = "streaming"
                                            /\ turns[s].chatKey = chatKey}]
    /\ resetChat(chatKey)

\* ccb pairing revoke <chatKey>, run by the operator in a process of its own
\* on the same database: the allow-set entry and the chat's sessions go, the
\* cache of the running bridge is not touched.
revokePairing(chatKey) ==
    /\ call' = Call("revoke", <<>>, chatKey)
    /\ ret' = Ret(dbIsAllowed(chatKey), "", chatKey)
    /\ IF ~dbIsAllowed(chatKey)
       THEN UNCHANGED <<allowlist, sessions, active_sessions>>
       ELSE /\ allowlist' = removeFromAllowlist(allowlist, chatKey)
            /\ sessions' = deleteAllSessionRows(sessions, chatKey)
            /\ active_sessions' = deleteActivePointer(active_sessions, chatKey)
    /\ UNCHANGED <<pairing_requests, consumed, now, ticks, nextId, activeSessions,
                   turns, recorded>>

\* The process stops and starts again: the store stays, the cache and the
\* running generators are gone.
Restart ==
    /\ activeSessions' = EmptyMap
    /\ turns' = [s \in Slots |-> IdleTurn]
    /\ UNCHANGED <<pairingVars, now, ticks, sessions, nextId, active_sessions, recorded>>

----------------------------------------------------------------------------
(* SessionManager.sendMessage, step by step *)

\* The resume token without the placeholder test.
ResumeToken_NoPlaceholderTest(resumeSessionId) == resumeSessionId

\* if (resumeSessionId && !resumeSessionId.startsWith("ccb-")) queryOptions.resume = ...
ResumeToken(resumeSessionId) ==
    IF resumeSessionId # NoHandle /\ ~startsWithCcb(resumeSessionId)
    THEN resumeSessionId
    ELSE NoHandle

\* router.routeMessage(message) with no bindings configured: the default agent.
routeMessage(chatKey) == FirstAgent

\* The generator taking its agent from the router alone.
sendMessageStart_RouterOnly(s, chatKey, optSessionName, optAgentId) ==
    LET sessionName == IF optSessionName = "" THEN getActiveSessionName(chatKey)
                       ELSE optSessionName
        agentId == routeMessage(chatKey)
        resumeSessionId == getSession(chatKey, sessionName).sdkSessionId IN
    /\ turns[s].pc = "idle"
    /\ turns' = [turns EXCEPT ![s] =
             [IdleTurn EXCEPT !.pc = "streaming", !.chatKey = chatKey,
                              !.sessionName = sessionName, !.agentId = agentId,
                              !.resumeSessionId = resumeSessionId,
                              !.resume = ResumeToken(resumeSessionId),
                              !.sessionId = resumeSessionId]]
    /\ UNCHANGED <<pairingVars, now, ticks, sessions, nextId, active_sessions,
                   activeSessions, recorded>>

\* The generator up to its first suspension: options, agent, stored session,
\* query options, the call of query().
sendMessageStart(s, chatKey, optSessionName, optAgentId) ==
    LET sessionName == IF optSessionName = "" THEN getActiveSessionName(chatKey)
                       ELSE optSessionName
        agentId == IF optAgentId = NoAgent THEN routeMessage(chatKey) ELSE optAgentId
        existingSession == getSession(chatKey, sessionName)
        resumeSessionId == existingSession.sdkSessionId IN
    /\ turns[s].pc = "idle"
    /\ IF agentId \notin AgentIds
       THEN turns' = [turns EXCEPT ![s] =
                [IdleTurn EXCEPT !.pc = "error", !.chatKey = chatKey,
                                 !.sessionName = sessionName,
                                 !.out = <<Chunk("error", "Unknown agent")>>]]
       ELSE turns' = [turns EXCEPT ![s] =
                [IdleTurn EXCEPT !.pc = "streaming", !.chatKey = chatKey,
                                 !.sessionName = sessionName, !.agentId = agentId,
                                 !.resumeSessionId = resumeSessionId,
                                 !.resume = ResumeToken(resumeSessionId),
                                 !.sessionId = resumeSessionId]]
    /\ UNCHANGED <<pairingVars, now, ticks, sessions, nextId, active_sessions,
                   activeSessions, recorded>>

\* A call of sendMessage up to its first suspension, with its options.
sendMessageCall(s, chatKey, optSessionName, optAgentId) ==
    /\ call' = [op |-> "sendMessage", code |-> <<>>, chatKey |-> chatKey, slot |-> s,
                sessionName |-> optSessionName, agentId |-> optAgentId]
    /\ ret' = Void
    /\ sendMessageStart(s, chatKey, optSessionName, optAgentId)

NoChunk == Chunk("", "")

RECURSIVE FirstBlockChunk(_)
FirstBlockChunk(content) ==
    IF content = <<>> THEN NoChunk
    ELSE IF Head(content).type = "text" THEN Chunk("text", Head(content).text)
    ELSE IF Head(content).type = "tool_use" THEN Chunk("tool_use", Head(content).name)
    ELSE FirstBlockChunk(Tail(content))

\* processSDKMessage(event)
processSDKMessage(event) ==
    IF event.type = "assistant" THEN FirstBlockChunk(event.content) ELSE NoChunk

AssistantEvent(content) == [type |-> "assistant", content |-> content, session_id |-> NoHandle]

ResultEvent(id) == [type |-> "result", content |-> <<>>, session_id |-> SdkHandle(id)]

TextBlock(text) == [type |-> "text", text |-> text, name |-> ""]

ToolUseBlock(name) == [type |-> "tool_use", text |-> "", name |-> name]

\* One event of the port's stream reaches the for-await loop.
portEvent(s, event) ==
    LET t == turns[s]
        processed == processSDKMessage(event) IN
    /\ t.pc = "streaming"
    /\ t.events < MaxEvents
    /\ turns' = [turns EXCEPT ![s] =
          [t EXCEPT !.events = @ + 1,
                    !.out = IF processed # NoChunk THEN Append(@, processed) ELSE @,
                    !.sessionId = IF event.type = "result" THEN event.session_id ELSE @,
                    !.result = IF event.type = "result" THEN event.session_id ELSE @]]
    /\ UNCHANGED <<pairingVars, now, ticks, sessions, nextId, active_sessions,
                   activeSessions, recorded>>

\* One event of the port, with the event recorded.
portEventCall(s, event) ==
    /\ call' = [op |-> "portEvent", code |-> <<>>, chatKey |-> turns[s].chatKey,
                slot |-> s, event |-> event]
    /\ ret' = Void
    /\ portEvent(s, event)

\* The catch block that also saves what the turn had learned.
SessionsAfterThrow_Saves(t) ==
    IF t.sessionId # NoHandle
    THEN saveSession(sessions, nextId, t.chatKey, t.sessionId, t.agentId, t.sessionName)
    ELSE sessions

\* catch (error) { yield { type: "error", ... } }: the store is not written.
SessionsAfterThrow(t) == sessions

\* A catch block that is also reached after done was yielded.
portThrow_AlsoAfterDone(s) ==
    LET t == turns[s] IN
    /\ t.pc \in {"streaming", "done"}
    /\ turns' = [turns EXCEPT ![s] =
          [t EXCEPT !.pc = "error", !.out = Append(@, Chunk("error", "port failed"))]]
    /\ sessions' = SessionsAfterThrow(t)
    /\ nextId' = NextIdAfter(sessions, sessions')
    /\ UNCHANGED <<pairingVars, now, ticks, active_sessions, activeSessions, recorded>>

\* query() or the stream throws.
portThrow(s) ==
    LET t == turns[s] IN
    /\ t.pc = "streaming"
    /\ turns' = [turns EXCEPT ![s] =
          [t EXCEPT !.pc = "error", !.out = Append(@, Chunk("error", "port failed"))]]
    /\ sessions' = SessionsAfterThrow(t)
    /\ nextId' = NextIdAfter(sessions, sessions')
    /\ UNCHANGED <<pairingVars, now, ticks, active_sessions, activeSessions, recorded>>

\* The stream ended: save the session id, yield done.
sendMessageFinish(s) ==
    LET t == turns[s] IN
    /\ t.pc = "streaming"
    /\ t.sessionId # NoHandle => CanSave(t.chatKey, t.sessionName)
    /\ sessions' = IF t.sessionId # NoHandle
                   THEN saveSession(sessions, nextId, t.chatKey, t.sessionId,
                                    t.agentId, t.sessionName)
                   ELSE sessions
    /\ nextId' = NextIdAfter(sessions, sessions')
    /\ turns' = [turns EXCEPT ![s] =
          [t EXCEPT !.pc = "done", !.out = Append(@, Chunk("done", ""))]]
    /\ recorded' = IF t.result # NoHandle
                   THEN [recorded EXCEPT ![Key(t.chatKey, t.sessionName)] = t.result]
                   ELSE recorded
    /\ UNCHANGED <<pairingVars, now, ticks, active_sessions, activeSessions>>

\* The consumer has read the terminal chunk; the generator is gone.
endTurn(s) ==
    /\ turns[s].pc \in {"done", "error"}
    /\ turns' = [turns EXCEPT ![s] = IdleTurn]
    /\ UNCHANGED <<pairingVars, now, ticks, sessions, nextId, active_sessions,
                   activeSessions, recorded>>

----------------------------------------------------------------------------
(* AllowlistManager.isAllowed: src/security/allowlist.ts *)

NoUsername == <<>>

UserInfo(id, username) == [id |-> id, username |-> username]

ChannelConfig(enabled, dmPolicy, allowFrom) ==
    [enabled |-> enabled, dmPolicy |-> dmPolicy, allowFrom |-> allowFrom]

\* isAllowed called without a channelConfig
NoChannelConfig == [undefined |-> TRUE]

AccessResult(allowed, reason) == [allowed |-> allowed, reason |-> reason]

\* The allowFrom test that compares the username as written only.
isInConfigAllowlist_Exact(userInfo, config) ==
    /\ Len(config.allowFrom) # 0
    /\ \E i \in DOMAIN config.allowFrom :
          LET allowed == config.allowFrom[i] IN
          \/ allowed = userInfo.id
          \/ userInfo.username # NoUsername /\ allowed = userInfo.username

\* isInConfigAllowlist(userInfo, config); an absent username equals no entry.
isInConfigAllowlist(userInfo, config) ==
    /\ Len(config.allowFrom) # 0
    /\ \E i \in DOMAIN config.allowFrom :
          LET allowed == config.allowFrom[i] IN
          \/ allowed = userInfo.id
          \/ userInfo.username # NoUsername /\ allowed = userInfo.username
          \/ userInfo.username # NoUsername
               /\ toLowerCase(allowed) = toLowerCase(userInfo.username)

\* isAllowed(chatKey, userInfo, channelConfig)
isAllowed(chatKey, userInfo, channelConfig) ==
    IF channelConfig = NoChannelConfig
    THEN AccessResult(FALSE, "Channel not configured")
    ELSE IF ~channelConfig.enabled
    THEN AccessResult(FALSE, "Channel is disabled")
    ELSE CASE channelConfig.dmPolicy = "open" -> AccessResult(TRUE, "")
           [] channelConfig.dmPolicy = "pairing" ->
                IF dbIsAllowed(chatKey) THEN AccessResult(TRUE, "")
                ELSE IF isInConfigAllowlist(userInfo, channelConfig)
                THEN AccessResult(TRUE, "")
                ELSE AccessResult(FALSE, "Pairing required")
           [] channelConfig.dmPolicy = "allowlist" ->
                IF dbIsAllowed(chatKey) THEN AccessResult(TRUE, "")
                ELSE IF isInConfigAllowlist(userInfo, channelConfig)
                THEN AccessResult(TRUE, "")
                ELSE AccessResult(FALSE, "Not in allowlist")
           [] OTHER -> AccessResult(FALSE, "Unknown policy")

\* A SELECT that also writes the key it was asked about.
allowlistAfterSelect_Inserts(table, chatKey) ==
    IF chatKey = "" THEN table ELSE addToAllowlist(table, chatKey, "seen")

\* SELECT 1 FROM allowlist WHERE chat_key = ?: the table after the statement
allowlistAfterSelect(table, chatKey) == table

\* Whether isAllowed gets as far as asking the store.
AsksStore(channelConfig) ==
    /\ channelConfig # NoChannelConfig
    /\ channelConfig.enabled
    /\ channelConfig.dmPolicy \in {"pairing", "allowlist"}

\* A call of AllowlistManager.isAllowed, with what it returned.
isAllowedCall(chatKey, userInfo, channelConfig) ==
    /\ call' = [op |-> "isAllowed", code |-> <<>>, chatKey |-> chatKey,
                userInfo |-> userInfo, config |-> channelConfig]
    /\ ret' = isAllowed(chatKey, userInfo, channelConfig)
    /\ allowlist' = IF AsksStore(channelConfig)
                    THEN allowlistAfterSelect(allowlist, chatKey)
                    ELSE allowlist
    /\ UNCHANGED <<pairing_requests, consumed, now, ticks, sessionVars>>

----------------------------------------------------------------------------
(* setupAdapter: the command and message handlers, src/cli/commands/start.ts *)

\* A bot's or a channel's configuration: a record that has the field or not.
NoConfig == [name |-> "none"]

\* botConfig?.dmPolicy ?? channelConfig?.dmPolicy ?? "pairing", and the same
\* for allowFrom with [] as the last resort
getEffectiveConfig(botConfig, channelConfig) ==
    [dmPolicy |-> IF "dmPolicy" \in DOMAIN botConfig THEN botConfig.dmPolicy
                  ELSE IF "dmPolicy" \in DOMAIN channelConfig THEN channelConfig.dmPolicy
                  ELSE "pairing",
     allowFrom |-> IF "allowFrom" \in DOMAIN botConfig THEN botConfig.allowFrom
                   ELSE IF "allowFrom" \in DOMAIN channelConfig THEN channelConfig.allowFrom
                   ELSE <<>>]

IncomingMessage(chatKey, userInfo) == [chatKey |-> chatKey, userInfo |-> userInfo]

CommandContext(message, command, args) ==
    [message |-> message, command |-> command, args |-> args]

\* What a handler was given and what it passed to isAllowed.
HandlerCall(op, message, config) ==
    [op |-> op, code |-> <<>>, chatKey |-> message.chatKey,
     userInfo |-> message.userInfo, config |-> config]

HandlerRet(accessResult, invoked) ==
    [success |-> accessResult.allowed, reason |-> accessResult.reason,
     invoked |-> invoked]

\* The test that lets everything but a missing pairing through.
Denied_PairingOnly(accessResult) ==
    ~accessResult.allowed /\ accessResult.reason = "Pairing required"

\* if (!accessResult.allowed) { ...; return; }
Denied(accessResult) == ~accessResult.allowed

\* The test that offers a pairing code on every denial.
OffersPairing_Always(effectiveConfig) == effectiveConfig.dmPolicy # ""

\* if (effectiveConfig.dmPolicy === "pairing")
OffersPairing(effectiveConfig) == effectiveConfig.dmPolicy = "pairing"

NoOp == UNCHANGED <<pairingVars, now, ticks, sessionVars>>

\* commandParser.execute(ctx) with the session commands registered; the
\* command name comes in lower case from the adapter.
RegisteredCommands == {"new", "reset", "sessions", "session", "delete", "compact", "agent"}

\* The /agent handler: without an argument it lists the agents, with an
\* unknown id it replies so, with a configured id it creates the session
\* 'main' anew for that agent.
agentCommand(chatKey, args) ==
    IF Len(args) = 0 THEN NoOp
    ELSE IF args[1] \notin AgentIds THEN NoOp
    ELSE createNamedSession(chatKey, "main", args[1])

\* A call of the /agent handler, with its reply: switched or not.
agentCommandCall(chatKey, args) ==
    /\ call' = [op |-> "agent", code |-> <<>>, chatKey |-> chatKey, args |-> args]
    /\ ret' = [success |-> Len(args) > 0 /\ args[1] \in AgentIds]
    /\ agentCommand(chatKey, args)

execute(ctx) ==
    LET chatKey == ctx.message.chatKey
        args == ctx.args IN
    CASE ctx.command \in {"new", "reset"} -> resetChat(chatKey)
      [] ctx.command = "session" ->
           IF Len(args) = 0 THEN NoOp
           ELSE IF args[1] = "new"
           THEN /\ Len(args) > 1
                /\ createNamedSession(chatKey, args[2], NoAgent)
           ELSE switchSession(chatKey, args[1])
      [] ctx.command = "agent" -> agentCommand(chatKey, args)
      [] ctx.command = "delete" ->
           LET name == IF Len(args) > 0 THEN args[1] ELSE "main" IN
           IF name = getActiveSessionName(chatKey) THEN NoOp
           ELSE deleteSession(chatKey, name)
      [] OTHER -> NoOp

\* adapter.on("command", ...)
HandleCommand(ctx, botConfig, channelConfig, bytes) ==
    LET effectiveConfig == getEffectiveConfig(botConfig, channelConfig)
        passed == ChannelConfig(TRUE, effectiveConfig.dmPolicy, effectiveConfig.allowFrom)
        accessResult == isAllowed(ctx.message.chatKey, ctx.message.userInfo, passed) IN
    /\ call' = HandlerCall("command", ctx.message, passed)
    /\ IF Denied(accessResult)
       THEN IF OffersPairing(effectiveConfig)
            THEN /\ generateCodeEffect(ctx.message.chatKey, ctx.message.userInfo.id,
                                       DEFAULT_EXPIRY_MS, bytes)
                 /\ ret' = HandlerRet(accessResult, "generateCode")
                 /\ UNCHANGED <<now, ticks, sessionVars>>
            ELSE /\ ret' = HandlerRet(accessResult, "reply")
                 /\ NoOp
       ELSE /\ ret' = HandlerRet(accessResult,
                         IF ctx.command \in RegisteredCommands THEN "execute" ELSE "unknown")
            /\ execute(ctx)

\* adapter.on("message", ...) up to the first suspension of the generator
HandleMessage(s, msg, botConfig, channelConfig, boundAgentId, bytes) ==
    LET effectiveConfig == getEffectiveConfig(botConfig, channelConfig)
        passed == ChannelConfig(TRUE, effectiveConfig.dmPolicy, effectiveConfig.allowFrom)
        accessResult == isAllowed(msg.chatKey, msg.userInfo, passed) IN
    /\ call' = HandlerCall("message", msg, passed)
    /\ IF Denied(accessResult)
       THEN IF OffersPairing(effectiveConfig)
            THEN /\ generateCodeEffect(msg.chatKey, msg.userInfo.id, DEFAULT_EXPIRY_MS, bytes)
                 /\ ret' = HandlerRet(accessResult, "generateCode")
                 /\ UNCHANGED <<now, ticks, sessionVars>>
            ELSE /\ ret' = HandlerRet(accessResult, "none")
                 /\ NoOp
       ELSE /\ ret' = HandlerRet(accessResult, "sendMessage")
            /\ sendMessageStart(s, msg.chatKey, "", boundAgentId)

----------------------------------------------------------------------------
(* adapter.on("message", ...): the loop over the chunks of sendMessage *)

\* A text of 3001 characters.
LongText == "x...(3001)"

\* text.length
length(text) == IF text = LongText THEN 3001 ELSE IF text = "" THEN 0 ELSE 2

\* chunks.join("")
RECURSIVE joinTexts(_)
joinTexts(chunks) ==
    IF chunks = <<>> THEN "" ELSE Head(chunks) \o joinTexts(Tail(chunks))

\* chunks.join("").length
RECURSIVE joinedLength(_)
joinedLength(chunks) ==
    IF chunks = <<>> THEN 0 ELSE length(Head(chunks)) + joinedLength(Tail(chunks))

\* The handler's locals and what it has passed to adapter.send so far.
Streaming(chunks, lastSendTime, sent, returned) ==
    [chunks |-> chunks, lastSendTime |-> lastSendTime, sent |-> sent,
     returned |-> returned]

\* The body of the for-await loop for one chunk that arrives at time t.
consumeChunk(h, chunk, t) ==
    IF h.returned THEN h
    ELSE IF chunk.type = "text" /\ chunk.text # ""
    THEN LET pushed == Append(h.chunks, chunk.text) IN
         IF joinedLength(pushed) > 3000 \/ t - h.lastSendTime > 2000
         THEN Streaming(<<>>, t, Append(h.sent, joinTexts(pushed)), FALSE)
         ELSE Streaming(pushed, h.lastSendTime, h.sent, FALSE)
    ELSE IF chunk.type = "error"
    THEN Streaming(h.chunks, h.lastSendTime,
                   Append(h.sent, "Error: " \o chunk.text), TRUE)
    ELSE h

\* The chunks a step of the generator has yielded, consumed in order.
RECURSIVE consumeChunks(_, _, _)
consumeChunks(h, chunks, t) ==
    IF chunks = <<>> THEN h
    ELSE consumeChunks(consumeChunk(h, Head(chunks), t), Tail(chunks), t)

Yielded(before, after) == SubSeq(after, Len(before) + 1, Len(after))

\* After the loop: send remaining text.
endOfStream(h) ==
    IF h.returned THEN h
    ELSE Streaming(h.chunks, h.lastSendTime,
                   IF h.chunks # <<>> THEN Append(h.sent, joinTexts(h.chunks))
                   ELSE h.sent, TRUE)

\* The handler of an allowed message up to the generator's first suspension.
messageStart(s, chatKey, boundAgentId) ==
    /\ call' = [op |-> "message", code |-> <<>>, chatKey |-> chatKey, slot |-> s]
    /\ sendMessageStart(s, chatKey, "", boundAgentId)
    /\ ret' = consumeChunks(Streaming(<<>>, now, <<>>, FALSE), turns'[s].out, now)

\* The generator takes one event of the port; the handler consumes what it yields.
messageEvent(s, event) ==
    /\ portEvent(s, event)
    /\ ret' = consumeChunks(ret, Yielded(turns[s].out, turns'[s].out), now)
    /\ UNCHANGED call

\* The port throws; the generator yields its error chunk.
messageThrow(s) ==
    /\ portThrow(s)
    /\ ret' = consumeChunks(ret, Yielded(turns[s].out, turns'[s].out), now)
    /\ UNCHANGED call

\* The port's stream ends; the generator yields done and the loop ends.
messageFinish(s) ==
    /\ sendMessageFinish(s)
    /\ ret' = endOfStream(consumeChunks(ret, Yielded(turns[s].out, turns'[s].out), now))
    /\ UNCHANGED call

----------------------------------------------------------------------------
(* Router: bindings and agent resolution, src/core/router.ts *)

\* AgentBinding without the match field
NoMatch == [none |-> TRUE]

AgentBinding(agentId, match) == [agentId |-> agentId, match |-> match]

\* groupId of a message that is not from a group (undefined)
NoGroup == ""

\* `match.channel &&`: the criterion is there and is not the empty string
Specified(match, field) == field \in DOMAIN match /\ match[field] # ""

\* The binding test that looks at the channel only.
matchesBinding_ChannelOnly(binding, channel, peerId, groupId) ==
    IF binding.match = NoMatch THEN TRUE
    ELSE ~(Specified(binding.match, "channel") /\ binding.match.channel # channel)

\* matchesBinding(binding, channel, peerId, groupId)
matchesBinding(binding, channel, peerId, groupId) ==
    IF binding.match = NoMatch THEN TRUE
    ELSE LET match == binding.match IN
         IF Specified(match, "channel") /\ match.channel # channel THEN FALSE
         ELSE IF Specified(match, "peer") /\ match.peer # peerId THEN FALSE
         ELSE IF Specified(match, "group") /\ match.group # groupId THEN FALSE
         ELSE TRUE

\* this.bindings.find(b => !b.match)?.agentId, "" when there is none
RECURSIVE DefaultBindingAgentId(_)
DefaultBindingAgentId(bindings) ==
    IF bindings = <<>> THEN ""
    ELSE IF Head(bindings).match = NoMatch THEN Head(bindings).agentId
    ELSE DefaultBindingAgentId(Tail(bindings))

\* new Router(config): the agents by id, the bindings, the default agent id
Router(agentList, bindings) ==
    [agents |-> {agentList[i] : i \in DOMAIN agentList},
     bindings |-> bindings,
     defaultAgentId |-> IF DefaultBindingAgentId(bindings) # ""
                        THEN DefaultBindingAgentId(bindings)
                        ELSE agentList[1]]

\* The loop of findAgentId over the bindings that are left.
RECURSIVE FirstMatch(_, _, _, _, _)
FirstMatch(bindings, defaultAgentId, channel, peerId, groupId) ==
    IF bindings = <<>> THEN defaultAgentId
    ELSE IF matchesBinding(Head(bindings), channel, peerId, groupId)
    THEN Head(bindings).agentId
    ELSE FirstMatch(Tail(bindings), defaultAgentId, channel, peerId, groupId)

\* findAgentId(channel, peerId, groupId)
findAgentId(router, channel, peerId, groupId) ==
    FirstMatch(router.bindings, router.defaultAgentId, channel, peerId, groupId)

Routed(threw, agentId) == [threw |-> threw, agentId |-> agentId]

\* Router.routeMessage(message): the profile returned, named by its id
RouterRouteMessage(router, message) ==
    LET agentId == findAgentId(router, message.channel, message.userId, message.groupId) IN
    IF agentId \in router.agents THEN Routed(FALSE, agentId)
    ELSE IF router.defaultAgentId \in router.agents
    THEN Routed(FALSE, router.defaultAgentId)
    ELSE Routed(TRUE, "")

RoutedMessage(channel, userId, groupId) ==
    [channel |-> channel, userId |-> userId, groupId |-> groupId]

RouterCall(op, agentList, bindings, message) ==
    [op |-> op, code |-> <<>>, chatKey |-> "", agentList |-> agentList,
     bindings |-> bindings, message |-> message]

\* A call of findAgentId on a router built from a configuration.
findAgentIdCall(agentList, bindings, message) ==
    /\ call' = RouterCall("findAgentId", agentList, bindings, message)
    /\ ret' = Routed(FALSE, findAgentId(Router(agentList, bindings), message.channel,
                                        message.userId, message.groupId))
    /\ UNCHANGED <<pairingVars, now, ticks, sessionVars>>

\* A call of routeMessage on a router built from a configuration.
routeMessageCall(agentList, bindings, message) ==
    /\ call' = RouterCall("routeMessage", agentList, bindings, message)
    /\ ret' = RouterRouteMessage(Router(agentList, bindings), message)
    /\ UNCHANGED <<pairingVars, now, ticks, sessionVars>>

----------------------------------------------------------------------------
(* Router.parseChatKey and Router.buildChatKey: the chat key codec *)

\* A chat key and its segments are strings, written as sequences of
\* characters; split and join work on the characters.
Telegram == <<"t", "e", "l", "e", "g", "r", "a", "m">>

Discord == <<"d", "i", "s", "c", "o", "r", "d">>

WhatsApp == <<"w", "h", "a", "t", "s", "a", "p", "p">>

Group == <<"g", "r", "o", "u", "p">>

ChannelWord == <<"c", "h", "a", "n", "n", "e", "l">>

Main == <<"m", "a", "i", "n">>

Colon == ":"

\* The value of an absent option and of an array index out of range.
Undefined == <<"undefined">>

Digits == {"0", "1", "2", "3", "4", "5", "6", "7", "8", "9"}

\* A value in a condition: undefined and the empty string are falsy.
Truthy(v) == v # Undefined /\ v # <<>>

\* isNaN(Number(v)) for undefined, the empty string (Number("") is 0),
\* strings of digits and words of letters.
isNaN_Always(v) == TRUE

isNaN(v) == v = Undefined \/ \E i \in 1..Len(v) : v[i] \notin Digits

\* String.prototype.split(":")
RECURSIVE split(_)
split(s) ==
    IF \A i \in 1..Len(s) : s[i] # Colon
    THEN <<s>>
    ELSE LET i == CHOOSE j \in 1..Len(s) :
                      s[j] = Colon /\ \A k \in 1..(j - 1) : s[k] # Colon
         IN <<SubSeq(s, 1, i - 1)>> \o split(SubSeq(s, i + 1, Len(s)))

\* Array.prototype.join(":"): an undefined element is written as the
\* empty string.
RECURSIVE join(_)
join(parts) ==
    IF parts = <<>>
    THEN <<>>
    ELSE LET head == IF Head(parts) = Undefined THEN <<>> ELSE Head(parts)
         IN IF Len(parts) = 1
            THEN head
            ELSE head \o <<Colon>> \o join(Tail(parts))

\* parts[i], with JavaScript's indices from 0.
At(parts, i) == IF i + 1 <= Len(parts) THEN parts[i + 1] ELSE Undefined

\* The result of parseChatKey, or the error it throws.
ParsedKey(channel, botId, id, sessionName, isGroup) ==
    [threw |-> FALSE, channel |-> channel, botId |-> botId, id |-> id,
     sessionName |-> sessionName, isGroup |-> isGroup]

InvalidChatKey == [threw |-> TRUE]

parseChatKey(chatKey) ==
    LET parts == split(chatKey)
        channel == At(parts, 0)
    IN IF Len(parts) < 2
       THEN InvalidChatKey
       ELSE IF channel = Telegram
       THEN IF At(parts, 1) = Group
            THEN ParsedKey(channel, Undefined, At(parts, 2), At(parts, 3), TRUE)
            ELSE IF Len(parts) >= 3 /\ At(parts, 2) = Group
            THEN ParsedKey(channel, At(parts, 1), At(parts, 3), At(parts, 4), TRUE)
            ELSE IF Len(parts) >= 3 /\ ~isNaN(At(parts, 2))
            THEN ParsedKey(channel, At(parts, 1), At(parts, 2), At(parts, 3), FALSE)
            ELSE ParsedKey(channel, Undefined, At(parts, 1), At(parts, 2), FALSE)
       ELSE IF channel = Discord
       THEN IF At(parts, 1) = ChannelWord
            THEN ParsedKey(channel, Undefined, At(parts, 2), At(parts, 3), TRUE)
            ELSE IF Len(parts) >= 3 /\ At(parts, 2) = ChannelWord
            THEN ParsedKey(channel, At(parts, 1), At(parts, 3), At(parts, 4), TRUE)
            ELSE IF Len(parts) >= 3
            THEN ParsedKey(channel, At(parts, 1), At(parts, 2), At(parts, 3), FALSE)
            ELSE ParsedKey(channel, Undefined, At(parts, 1), At(parts, 2), FALSE)
       ELSE IF At(parts, 1) = Group
            THEN ParsedKey(channel, Undefined, At(parts, 2), At(parts, 3), TRUE)
            ELSE ParsedKey(channel, Undefined, At(parts, 1), At(parts, 2), FALSE)

\* The options argument of buildChatKey.
KeyOptions(botId, isGroup, sessionName) ==
    [botId |-> botId, isGroup |-> isGroup, sessionName |-> sessionName]

buildChatKey(channel, id, options) ==
    LET withChannel == <<channel>>
        withBot == IF Truthy(options.botId)
                   THEN Append(withChannel, options.botId)
                   ELSE withChannel
        withMarker == IF options.isGroup
                      THEN Append(withBot, IF channel = Discord THEN ChannelWord ELSE Group)
                      ELSE withBot
        withId == Append(withMarker, id)
        withSession == IF Truthy(options.sessionName) /\ options.sessionName # Main
                       THEN Append(withId, options.sessionName)
                       ELSE withId
    IN join(withSession)

\* The tuple a chat key stands for.
KeyTuple(channel, botId, isGroup, id, sessionName) ==
    [channel |-> channel, botId |-> botId, isGroup |-> isGroup, id |-> id,
     sessionName |-> sessionName]

\* buildChatKey of a parse result.
rebuild(parsed) ==
    IF parsed.threw
    THEN Undefined
    ELSE buildChatKey(parsed.channel, parsed.id,
                      KeyOptions(parsed.botId, parsed.isGroup, parsed.sessionName))

\* A tuple is encoded, the key decoded, and the result encoded again.
roundTripCall(x) ==
    LET encoded == buildChatKey(x.channel, x.id,
                                KeyOptions(x.botId, x.isGroup, x.sessionName))
        decoded == parseChatKey(encoded)
    IN /\ call' = [op |-> "roundTrip", code |-> <<>>, chatKey |-> encoded, x |-> x]
       /\ ret' = [encoded |-> encoded, decoded |-> decoded, reencoded |-> rebuild(decoded)]
       /\ UNCHANGED <<pairingVars, now, ticks, sessionVars>>

\* A call of parseChatKey on a key as it comes.
parseChatKeyCall(chatKey) ==
    /\ call' = [op |-> "parseChatKey", code |-> <<>>, chatKey |-> chatKey]
    /\ ret' = parseChatKey(chatKey)
    /\ UNCHANGED <<pairingVars, now, ticks, sessionVars>>

----------------------------------------------------------------------------
(* CommandParser: register and execute *)

\* A command definition: its name, its aliases and its handler, named here
\* after the command.
CommandDefinition(name, aliases, handler) ==
    [name |-> name, aliases |-> aliases, handler |-> handler]

\* The definitions in the order registerCommands registers them: session,
\* status, settings, control and discovery commands.
CommandDefinitions ==
    <<
      CommandDefinition(<<"n", "e", "w">>, <<<<"r", "e", "s", "e", "t">>>>, "new"),
      CommandDefinition(<<"s", "e", "s", "s", "i", "o", "n", "s">>, <<>>, "sessions"),
      CommandDefinition(<<"s", "e", "s", "s", "i", "o", "n">>, <<>>, "session"),
      CommandDefinition(<<"d", "e", "l", "e", "t", "e">>, <<>>, "delete"),
      CommandDefinition(<<"c", "o", "m", "p", "a", "c", "t">>, <<>>, "compact"),
      CommandDefinition(<<"h", "e", "l", "p">>, <<<<"h">>, <<"?">>>>, "help"),
      CommandDefinition(<<"s", "t", "a", "t", "u", "s">>, <<>>, "status"),
      CommandDefinition(<<"w", "h", "o", "a", "m", "i">>, <<>>, "whoami"),
      CommandDefinition(<<"p", "i", "n", "g">>, <<>>, "ping"),
      CommandDefinition(<<"m", "o", "d", "e", "l">>, <<>>, "model"),
      CommandDefinition(<<"w", "o", "r", "k", "s", "p", "a", "c", "e">>, <<>>, "workspace"),
      CommandDefinition(<<"a", "g", "e", "n", "t">>, <<>>, "agent"),
      CommandDefinition(<<"a", "g", "e", "n", "t", "s">>, <<>>, "agents (settings)"),
      CommandDefinition(<<"s", "t", "o", "p">>, <<>>, "stop"),
      CommandDefinition(<<"a", "b", "o", "r", "t">>, <<>>, "abort"),
      CommandDefinition(<<"c", "l", "e", "a", "r">>, <<>>, "clear"),
      CommandDefinition(<<"s", "k", "i", "l", "l", "s">>, <<>>, "skills"),
      CommandDefinition(<<"p", "l", "u", "g", "i", "n", "s">>, <<<<"p", "l", "u", "g", "i", "n">>>>, "plugins"),
      CommandDefinition(<<"m", "c", "p">>, <<>>, "mcp"),
      CommandDefinition(<<"a", "g", "e", "n", "t", "s">>, <<>>, "agents (discovery)")
    >>

RECURSIVE registerAliases(_, _, _)
registerAliases(commands, aliases, definition) ==
    IF aliases = <<>> THEN commands
    ELSE registerAliases(MapSet(commands, Head(aliases), definition), Tail(aliases),
                         definition)

\* CommandParser.register(definition)
register(commands, definition) ==
    registerAliases(MapSet(commands, definition.name, definition), definition.aliases,
                    definition)

RECURSIVE registerCommands(_, _)
registerCommands(commands, definitions) ==
    IF definitions = <<>> THEN commands
    ELSE registerCommands(register(commands, Head(definitions)), Tail(definitions))

\* The parser after start-up.
commandParser == registerCommands(<<>>, CommandDefinitions)

\* What execute returns and the handlers it invoked.
Executed(handled, invoked) == [handled |-> handled, threw |-> FALSE, invoked |-> invoked]

\* An execute that looks the name up as it was typed.
executeCommand_AsTyped(commands, command) ==
    IF command \notin DOMAIN commands
    THEN Executed(FALSE, <<>>)
    ELSE Executed(TRUE, <<commands[command].handler>>)

\* CommandParser.execute(ctx): the dispatch.
executeCommand(commands, command) ==
    LET name == toLowerCase(command) IN
    IF name \notin DOMAIN commands
    THEN Executed(FALSE, <<>>)
    ELSE Executed(TRUE, <<commands[name].handler>>)

\* A call of execute on the parser of the program.
executeCall(command) ==
    /\ call' = [op |-> "execute", code |-> <<>>, chatKey |-> "", command |-> command]
    /\ ret' = executeCommand(commandParser, command)
    /\ UNCHANGED <<pairingVars, now, ticks, sessionVars>>

----------------------------------------------------------------------------
(* CommandParser.parse and BaseAdapter.parseCommand *)

\* The white space of the texts of the model: the blank and the tab.
WhiteSpace == {" ", "\t"}

\* String.prototype.trim
RECURSIVE trimStart(_)
trimStart(s) ==
    IF s # <<>> /\ Head(s) \in WhiteSpace THEN trimStart(Tail(s)) ELSE s

RECURSIVE trimEnd(_)
trimEnd(s) ==
    IF s # <<>> /\ s[Len(s)] \in WhiteSpace THEN trimEnd(SubSeq(s, 1, Len(s) - 1)) ELSE s

trim(s) == trimEnd(trimStart(s))

\* String.prototype.indexOf(c), from 0; -1 when c is not in s.
indexOf(s, c) ==
    IF \E i \in DOMAIN s : s[i] = c
    THEN (CHOOSE i \in DOMAIN s : s[i] = c /\ \A j \in 1..(i - 1) : s[j] # c) - 1
    ELSE -1

\* String.prototype.slice(from, to) with 0 <= from.
slice(s, from, to) == SubSeq(s, from + 1, IF to > Len(s) THEN Len(s) ELSE to)

\* String.prototype.split(/\s+/): the pieces between runs of white space,
\* an empty piece before a leading and after a trailing run.
RECURSIVE splitWhiteSpace(_)
splitWhiteSpace(s) ==
    IF \A i \in DOMAIN s : s[i] \notin WhiteSpace
    THEN <<s>>
    ELSE LET i == CHOOSE j \in DOMAIN s :
                      s[j] \in WhiteSpace /\ \A k \in 1..(j - 1) : s[k] \notin WhiteSpace
         IN <<SubSeq(s, 1, i - 1)>>
               \o splitWhiteSpace(trimStart(SubSeq(s, i, Len(s))))

NotACommand == [isCommand |-> FALSE]

ParsedCommand(command, args) == [isCommand |-> TRUE, command |-> command, args |-> args]

\* CommandParser.parse(text)
parse(text) ==
    LET trimmed == trim(text)
        spaceIndex == indexOf(trimmed, " ")
        token == IF spaceIndex = -1
                 THEN toLowerCase(slice(trimmed, 1, Len(trimmed)))
                 ELSE toLowerCase(slice(trimmed, 1, spaceIndex))
        rawArgs == IF spaceIndex = -1
                   THEN <<>>
                   ELSE trim(slice(trimmed, spaceIndex + 1, Len(trimmed)))
        atIndex == indexOf(token, "@")
        command == IF atIndex # -1 THEN slice(token, 0, atIndex) ELSE token
        args == IF rawArgs # <<>> THEN splitWhiteSpace(rawArgs) ELSE <<>>
    IN IF trimmed = <<>> \/ trimmed[1] # "/"
       THEN NotACommand
       ELSE ParsedCommand(command, args)

\* BaseAdapter.parseCommand(text)
parseCommand(text) ==
    IF text = <<>> \/ text[1] # "/"
    THEN NotACommand
    ELSE LET parts == splitWhiteSpace(slice(text, 1, Len(text)))
         IN ParsedCommand(toLowerCase(parts[1]), Tail(parts))

\* The adapter's handleMessage on a text from an allowed chat: what the
\* adapter parsed, what CommandParser.parse defines, and what the command
\* handler's execute did with the adapter's command.
handleText(text) ==
    LET parsed == parseCommand(text) IN
    /\ call' = [op |-> "handleText", code |-> <<>>, chatKey |-> "", text |-> text]
    /\ ret' = [adapter |-> parsed,
               parser |-> parse(text),
               executed |-> IF parsed.isCommand
                            THEN executeCommand(commandParser, parsed.command)
                            ELSE Executed(FALSE, <<>>)]
    /\ UNCHANGED <<pairingVars, now, ticks, sessionVars>>

----------------------------------------------------------------------------
(* Specifications of the session manager and of the handlers in front of it *)

PortEvents == {AssistantEvent(<<TextBlock("hi")>>)} \cup {ResultEvent(id) : id \in SdkSessionIds}

OptAgentIds == {NoAgent, UnknownAgent}

OptSessionNames == {""} \cup SessionNames

SendStart(slots, chatKeys) ==
    \E s \in slots, ck \in chatKeys, sn \in OptSessionNames, a \in OptAgentIds :
        Quiet(sendMessageStart(s, ck, sn, a))

TurnSteps(slots) ==
    \/ \E s \in slots, e \in PortEvents : Quiet(portEvent(s, e))
    \/ \E s \in slots : Quiet(portThrow(s))
    \/ \E s \in slots : Quiet(sendMessageFinish(s))
    \/ \E s \in slots : Quiet(endTurn(s))

CreateOps(chatKeys) ==
    \/ \E ck \in chatKeys, sn \in SessionNames : Quiet(getOrCreateSession(ck, FirstAgent, sn))
    \/ \E ck \in chatKeys, sn \in SessionNames, a \in OptAgentIds :
          Quiet(createNamedSession(ck, sn, a))

RemoveOps(chatKeys) ==
    \/ \E ck \in chatKeys, sn \in SessionNames : Quiet(deleteSession(ck, sn))
    \/ \E ck \in chatKeys : Quiet(resetChat(ck))

\* One chat, one turn at a time: every operation of the session manager,
\* and the process restarting.
OneChat == {"telegram:1"}

Next ==
    \/ SendStart({1}, OneChat)
    \/ TurnSteps({1})
    \/ CreateOps(OneChat)
    \/ RemoveOps(OneChat)
    \/ \E sn \in SessionNames : Quiet(switchSession("telegram:1", sn))
    \/ Quiet(Restart)

Spec == Init /\ [][Next]_vars

\* One chat with the clock running: turns on stored and on unseen sessions.
NextClock ==
    \/ SendStart({1}, OneChat)
    \/ TurnSteps({1})
    \/ \E sn \in SessionNames : Quiet(createNamedSession("telegram:1", sn, NoAgent))
    \/ Quiet(Tick(1))

SpecClock == Init /\ [][NextClock]_vars

\* Two generators at once on one session key, with the operations that
\* write its row.
ResultEvents == {ResultEvent(id) : id \in SdkSessionIds}

NextOverlap ==
    \/ \E s \in Slots : Quiet(sendMessageStart(s, "telegram:1", "main", NoAgent))
    \/ \E s \in Slots, e \in ResultEvents : Quiet(portEvent(s, e))
    \/ \E s \in Slots : Quiet(portThrow(s))
    \/ \E s \in Slots : Quiet(sendMessageFinish(s))
    \/ \E s \in Slots : Quiet(endTurn(s))
    \/ Quiet(getOrCreateSession("telegram:1", FirstAgent, "main"))
    \/ Quiet(createNamedSession("telegram:1", "main", NoAgent))
    \/ Quiet(deleteSession("telegram:1", "main"))

SpecOverlap == Init /\ [][NextOverlap]_vars

\* The adapters' handlers in front of the session manager, with the
\* operator approving codes and editing the allow-set.
Users == {UserInfo(<<"1">>, <<"A", "d", "a">>), UserInfo(<<"2">>, NoUsername)}

BotConfigs ==
    {NoConfig, [dmPolicy |-> "open"],
     [dmPolicy |-> "allowlist", allowFrom |-> << <<"a", "d", "a">> >>]}

ChannelConfigs == {NoConfig, [dmPolicy |-> "closed", allowFrom |-> << <<"2">> >>]}

Messages == {IncomingMessage(ck, u) : ck \in OneChat, u \in Users}

Commands ==
    {CommandContext(m, c[1], c[2]) :
        m \in Messages,
        c \in {<<"new", <<>>>>, <<"session", <<"new", "work">>>>,
               <<"sessions", <<>>>>, <<"bogus", <<>>>>}}

GateBytes == <<171, 205, 239>>

Logged(A, op) == A /\ call' = Call(op, <<>>, "") /\ ret' = Void

NextGate ==
    \/ \E m \in Messages, b \in BotConfigs, c \in ChannelConfigs :
          HandleMessage(1, m, b, c, NoAgent, GateBytes)
    \/ \E ctx \in Commands, b \in BotConfigs, c \in ChannelConfigs :
          HandleCommand(ctx, b, c, GateBytes)
    \/ Logged(portEvent(1, ResultEvent("uuid-1")), "port")
    \/ Logged(portThrow(1), "port")
    \/ Logged(sendMessageFinish(1), "port")
    \/ Logged(endTurn(1), "port")
    \/ approve(MakeCode(GateBytes))
    \/ add("telegram:1")
    \/ remove("telegram:1")

SpecGate == Init /\ [][NextGate]_vars

\* The Discord adapter: the client calls the messageCreate listener once
\* per message and does not wait for the promise it returns, so a listener
\* runs from its start whenever a message arrives; s is the invocation.
messageCreate(s, msg) ==
    HandleMessage(s, msg, [dmPolicy |-> "open"], NoConfig, NoAgent, GateBytes)

DiscordMessages == {IncomingMessage(DiscordChat, UserInfo(<<"7">>, <<"A", "d", "a">>))}

NextDiscord ==
    \/ \E s \in Slots, msg \in DiscordMessages : messageCreate(s, msg)
    \/ \E s \in Slots, e \in PortEvents : Logged(portEvent(s, e), "port")
    \/ \E s \in Slots : Logged(portThrow(s), "port")
    \/ \E s \in Slots : Logged(sendMessageFinish(s), "port")
    \/ \E s \in Slots : Logged(endTurn(s), "port")

SpecDiscord == Init /\ [][NextDiscord]_vars

\* The access decision asked for every input, between operations that fill
\* the allow-set, the pairing requests, the session rows and the pointers.
DecideUsers ==
    {UserInfo(<<"1">>, <<"A", "d", "a">>), UserInfo(<<"2">>, NoUsername),
     UserInfo(<<"a", "d", "a">>, <<"B", "e", "a">>)}

AllowFroms ==
    {<<>>, << <<"a", "d", "a">> >>, << <<"2">>, <<"A", "D", "A">> >>, << <<"B", "e", "a">> >>}

DmPolicies == {"open", "pairing", "allowlist"}

ChannelConfigInputs ==
    {NoChannelConfig}
      \cup {ChannelConfig(e, p, a) :
              e \in BOOLEAN, p \in DmPolicies \cup {"closed"}, a \in AllowFroms}

NextDecide ==
    \/ \E ck \in ChatKeys, u \in DecideUsers, cfg \in ChannelConfigInputs :
          isAllowedCall(ck, u, cfg)
    \/ \E ck \in ChatKeys : add(ck)
    \/ \E ck \in ChatKeys : remove(ck)
    \/ generateCode("telegram:1", <<"1">>, DEFAULT_EXPIRY_MS, GateBytes)
    \/ approve(MakeCode(GateBytes))
    \/ Logged(createNamedSession("telegram:1", "work", NoAgent), "createNamedSession")

SpecDecide == Init /\ [][NextDecide]_vars

\* The router asked about every message, for every configuration of at most
\* MaxBindings bindings out of a pool.
MaxBindings == 2

BindingPool ==
    {AgentBinding("coder", [channel |-> "discord"]),
     AgentBinding("main", NoMatch),
     AgentBinding("coder", [channel |-> "telegram", peer |-> "1", group |-> ""]),
     AgentBinding("ghost", [group |-> "g1"])}

BindingLists == UNION {[1..n -> BindingPool] : n \in 0..MaxBindings}

AgentLists == {<<"main", "coder">>, <<"coder">>}

RoutedMessages ==
    {RoutedMessage(c, u, g) : c \in {"telegram", "discord"}, u \in {"1", "2"},
                              g \in {NoGroup, "g1"}}

NextRouter ==
    \/ \E al \in AgentLists, bs \in BindingLists, msg \in RoutedMessages :
          findAgentIdCall(al, bs, msg)
    \/ \E al \in AgentLists, bs \in BindingLists, msg \in RoutedMessages :
          routeMessageCall(al, bs, msg)

SpecRouter == Init /\ [][NextRouter]_vars

\* Sessions of two chats created, used, deleted and switched between: every
\* step is recorded, a switch with its arguments and result.
SwitchNames == SessionNames \cup {"ghost"}

NextSwitch ==
    \/ \E ck \in ChatKeys, sn \in SwitchNames : switchSessionCall(ck, sn)
    \/ \E ck \in ChatKeys, sn \in SessionNames, a \in OptAgentIds :
          createNamedSessionCall(ck, sn, a)
    \/ \E ck \in ChatKeys, sn \in SessionNames :
          Logged(deleteSession(ck, sn), "deleteSession")
    \/ \E ck \in ChatKeys : Logged(resetChat(ck), "resetChat")
    \/ Logged(sendMessageStart(1, "telegram:1", "", NoAgent), "sendMessage")
    \/ Logged(portEvent(1, ResultEvent("uuid-1")), "port")
    \/ Logged(sendMessageFinish(1), "port")
    \/ Logged(endTurn(1), "port")

SpecSwitch == Init /\ [][NextSwitch]_vars

\* The cache and the store together: sessions of two chats, one chat key
\* being the other followed by a session name, are looked up, created,
\* deleted and reset, and the process restarts.
NextCache ==
    \/ \E ck \in ChatKeys, sn \in SessionNames :
          getOrCreateSessionCall(ck, FirstAgent, sn)
    \/ \E ck \in ChatKeys, sn \in SessionNames :
          Logged(createNamedSession(ck, sn, NoAgent), "createNamedSession")
    \/ \E ck \in ChatKeys, sn \in SessionNames :
          Logged(deleteSession(ck, sn), "deleteSession")
    \/ \E ck \in ChatKeys : resetChatCall(ck)
    \/ Logged(Restart, "restart")

SpecCache == Init /\ [][NextCache]_vars

\* One turn at a time whose events carry up to MaxBlocks content blocks.
MaxBlocks == 2

BlockPool == {TextBlock("hi"), TextBlock("ok"), ToolUseBlock("Bash"),
              [type |-> "thinking", text |-> "", name |-> ""]}

StreamEvents ==
    {AssistantEvent(c) : c \in UNION {[1..n -> BlockPool] : n \in 0..MaxBlocks}}
        \cup {ResultEvent(id) : id \in SdkSessionIds}

NextStream ==
    \/ \E sn \in OptSessionNames, a \in OptAgentIds \cup AgentIds :
          sendMessageCall(1, "telegram:1", sn, a)
    \/ createNamedSessionCall("telegram:1", "work", NoAgent)
    \/ \E e \in StreamEvents : portEventCall(1, e)
    \/ Logged(portThrow(1), "port")
    \/ Logged(sendMessageFinish(1), "port")
    \/ Logged(endTurn(1), "port")

SpecStream == Init /\ [][NextStream]_vars

\* Command names as they may be typed: every name and alias of the parser
\* in lower case, in upper case and capitalised, the short ones in every
\* mix of cases, and names the parser does not know.
MaxMixedCase == 4

RegisteredNames == DOMAIN commandParser

CaseForms(name) ==
    IF Len(name) <= MaxMixedCase
    THEN {t \in [DOMAIN name -> {name[i] : i \in DOMAIN name}
                                  \cup {UpperChar(name[i]) : i \in DOMAIN name}] :
             \A i \in DOMAIN name : t[i] \in {name[i], UpperChar(name[i])}}
    ELSE {name, toUpperCase(name), [i \in DOMAIN name |->
                                      IF i = 1 THEN UpperChar(name[i]) ELSE name[i]]}

UnknownNames == {<<"b", "o", "g", "u", "s">>, <<"h", "e", "l">>, <<"h", "e", "l", "p", "x">>, <<"h", "e", "l", "p", "@", "b", "o", "t">>, <<>>}

TypedCommands == UNION {CaseForms(n) : n \in RegisteredNames \cup UnknownNames}

NextDispatch == \E c \in TypedCommands : executeCall(c)

SpecDispatch == Init /\ [][NextDispatch]_vars

\* Chat texts put together from up to MaxFragments fragments.
MaxFragments == 3

Fragments == {<<"/">>, <<"h", "e", "l", "p">>, <<"N", "e", "w">>, <<"@", "b", "o", "t">>, <<" ">>, <<"\t">>, <<"w", "o", "r", "k">>}

RECURSIVE Concat(_)
Concat(pieces) == IF pieces = <<>> THEN <<>> ELSE Head(pieces) \o Concat(Tail(pieces))

Texts == {Concat(p) : p \in UNION {[1..n -> Fragments] : n \in 1..MaxFragments}}

NextParse == \E t \in Texts : handleText(t)

SpecParse == Init /\ [][NextParse]_vars

\* The /agent command and plain messages in two chats, one turn at a time;
\* the bot has no agent bound to it.
NextAgent ==
    \/ \E ck \in ChatKeys, args \in {<<>>, <<"main">>, <<"coder">>, <<UnknownAgent>>} :
          agentCommandCall(ck, args)
    \/ \E ck \in ChatKeys : sendMessageCall(1, ck, "", NoAgent)
    \/ \E e \in ResultEvents : Logged(portEvent(1, e), "port")
    \/ Logged(sendMessageFinish(1), "port")
    \/ Logged(endTurn(1), "port")

SpecAgent == Init /\ [][NextAgent]_vars

\* Allowed messages of one chat, one turn at a time, with texts short and
\* long and the clock moving between the chunks.
DeliverEvents ==
    {AssistantEvent(<<b>>) : b \in {TextBlock("hi"), TextBlock("ok"), TextBlock(LongText),
                                    TextBlock(""), ToolUseBlock("Bash")}}
        \cup {ResultEvent("uuid-1")}

NextDeliver ==
    \/ \E a \in OptAgentIds : messageStart(1, "telegram:1", a)
    \/ \E e \in DeliverEvents : messageEvent(1, e)
    \/ messageThrow(1)
    \/ messageFinish(1)
    \/ Quiet(endTurn(1))
    \/ \E d \in TickSteps : Quiet(Tick(d))

SpecDeliver == Init /\ [][NextDeliver]_vars

\* Contacts of one chat under the pairing policy, each handler drawing its
\* own code, with the operator approving and the clock running.
NextRequests ==
    \/ \E m \in Messages, b \in RandomBytesPool :
          HandleMessage(1, m, NoConfig, NoConfig, NoAgent, b)
    \/ \E ctx \in Commands, b \in RandomBytesPool :
          HandleCommand(ctx, NoConfig, NoConfig, b)
    \/ Logged(sendMessageFinish(1), "port")
    \/ Logged(endTurn(1), "port")
    \/ \E c \in IssuedCodes : approve(c)
    \/ \E d \in TickSteps : Tick(d) /\ call' = Call("tick", <<>>, "") /\ ret' = Void

SpecRequests == Init /\ [][NextRequests]_vars

\* The commands /new, /reset and /clear of one chat while its turn runs: the
\* steps of the turn leave the log alone, so that after a reset the log
\* names the reset until the next turn starts.
NextReset ==
    \/ \E sn \in OptSessionNames : sendMessageCall(1, "telegram:1", sn, NoAgent)
    \/ \E e \in ResultEvents : Quiet(portEvent(1, e))
    \/ Quiet(portThrow(1))
    \/ Quiet(sendMessageFinish(1))
    \/ Quiet(endTurn(1))
    \/ resetChatCall("telegram:1")

SpecReset == Init /\ [][NextReset]_vars

\* The handlers of one chat with the operator approving, adding, removing
\* and revoking between the messages.
RevokeConfigs == {b \in BotConfigs : getEffectiveConfig(b, NoConfig).dmPolicy # "open"}

NextRevoke ==
    \/ \E m \in Messages, b \in RevokeConfigs, bytes \in RandomBytesPool :
          HandleMessage(1, m, b, NoConfig, NoAgent, bytes)
    \/ \E m \in Messages, b \in RevokeConfigs :
          HandleCommand(CommandContext(m, "new", <<>>), b, NoConfig, GateBytes)
    \/ Logged(portEvent(1, ResultEvent("uuid-1")), "port")
    \/ Logged(sendMessageFinish(1), "port")
    \/ Logged(endTurn(1), "port")
    \/ \E c \in IssuedCodes : approve(c)
    \/ add("telegram:1")
    \/ remove("telegram:1")
    \/ revokePairing("telegram:1")

SpecRevoke == Init /\ [][NextRevoke]_vars

----------------------------------------------------------------------------
(* Specification of the chat key codec *)

MaxSegments == 4

Work == <<"w", "o", "r", "k">>

BotIds == {<<"b", "1">>, <<"9">>}

PeerIds == {<<"1", "2">>, <<"7">>}

KeySessionNames == {Main, Work, <<"2">>, Group, ChannelWord}

KeyTuples ==
    {KeyTuple(c, b, g, i, sn) :
        c \in {Telegram, Discord}, b \in {Undefined} \cup BotIds, g \in BOOLEAN,
        i \in PeerIds, sn \in {Undefined} \cup KeySessionNames}

SegmentPool == {<<"1", "2">>, Work, Group, ChannelWord, <<>>}

\* Keys of one to MaxSegments segments, the first a platform.
RawKeys ==
    {join(<<c>> \o p) :
        c \in {Telegram, Discord, WhatsApp},
        p \in UNION {[1..n -> SegmentPool] : n \in 0..(MaxSegments - 1)}}

NextChatKey ==
    \/ \E x \in KeyTuples : roundTripCall(x)
    \/ \E k \in RawKeys : parseChatKeyCall(k)

SpecChatKey == Init /\ [][NextChatKey]_vars

----------------------------------------------------------------------------
(* Properties of the session manager *)

TurnStarts(s) == turns[s].pc = "idle" /\ turns'[s].pc = "streaming"

\* C1: the resume token of a turn is absent or the handle stored for
\* (chatKey, sessionName) when the turn started, and it never carries the
\* placeholder prefix "ccb-"; the token does not change while the turn runs.
C1_ResumeNeverPlaceholder ==
    [][\A s \in Slots :
          /\ TurnStarts(s) =>
               LET t == turns'[s] IN
               /\ t.resume = NoHandle
                    \/ t.resume = getSession(t.chatKey, t.sessionName).sdkSessionId
               /\ ~startsWithCcb(t.resume)
          /\ (turns[s].pc = "streaming" /\ turns'[s].pc # "idle") =>
               turns'[s].resume = turns[s].resume]_vars

\* A turn runs on a session whose stored handle is a placeholder, and passes
\* no resume token.
C1_Witness ==
    \E s \in Slots :
        /\ turns[s].pc = "streaming"
        /\ startsWithCcb(turns[s].resumeSessionId)
        /\ turns[s].resume = NoHandle

\* C2: a handler starts a sendMessage turn, or runs a command, only if
\* isAllowed, asked in the state the handler found with the chat key, the
\* user and the effective configuration of that message, said allowed; a
\* handler whose message was denied leaves the session manager, its store
\* and the running turns untouched.
C2_GateBeforeAgent ==
    [][LET handled == call'.op \in {"message", "command"}
           allowed == isAllowed(call'.chatKey, call'.userInfo, call'.config).allowed IN
       /\ (\E s \in Slots : turns[s].pc = "idle" /\ turns'[s].pc # "idle")
             => (call'.op = "message" /\ allowed)
       /\ (turns' = turns /\ <<sessions, active_sessions, activeSessions>>
                               # <<sessions', active_sessions', activeSessions'>>)
             => (call'.op = "command" /\ allowed)
       /\ (handled /\ ret'.invoked \in {"sendMessage", "execute", "unknown"}) => allowed
       /\ (handled /\ ~allowed) => sessionVars' = sessionVars]_vars

\* A chat that got onto the allow-set by an approved code is let through
\* under the pairing policy, and its turn is running.
C2_Witness ==
    /\ call.op = "message"
    /\ call.config.dmPolicy = "pairing"
    /\ ~isInConfigAllowlist(call.userInfo, call.config)
    /\ \E a \in allowlist : a.chatKey = call.chatKey /\ a.addedBy = "pairing"
    /\ turns[1].pc = "streaming"
    /\ turns[1].chatKey = call.chatKey

\* C11: at most one sendMessage turn per chat key is in flight: a second
\* message on a chat key does not start its turn before the stream of the
\* first has ended.
C11_OneTurnPerChat ==
    \A s1, s2 \in Slots :
        (s1 # s2 /\ turns[s1].pc = "streaming" /\ turns[s2].pc = "streaming")
            => turns[s1].chatKey # turns[s2].chatKey

InAllowFrom(userInfo, allowFrom) ==
    LET entries == {allowFrom[i] : i \in DOMAIN allowFrom} IN
    \/ userInfo.id \in entries
    \/ /\ userInfo.username # NoUsername
       /\ toLowerCase(userInfo.username) \in {toLowerCase(e) : e \in entries}

\* C12: isAllowed follows the decision table: no configuration or a disabled
\* channel is denied; policy "open" is allowed; policies "pairing" and
\* "allowlist" are allowed exactly when the chat key is in the persisted
\* allow-set or the user's id, or the username without regard to case, is in
\* allowFrom.
C12_DecisionTable ==
    (call.op = "isAllowed"
        /\ (call.config = NoChannelConfig \/ call.config.dmPolicy \in DmPolicies))
    => ret.allowed =
         IF call.config = NoChannelConfig THEN FALSE
         ELSE IF ~call.config.enabled THEN FALSE
         ELSE IF call.config.dmPolicy = "open" THEN TRUE
         ELSE \/ call.chatKey \in AllowedKeys(allowlist)
              \/ InAllowFrom(call.userInfo, call.config.allowFrom)

\* A user not in the allow-set is allowed under "pairing" by an allowFrom
\* entry that differs from the username in case only.
C12_Witness ==
    /\ call.op = "isAllowed"
    /\ call.config # NoChannelConfig
    /\ call.config.enabled
    /\ call.config.dmPolicy = "pairing"
    /\ call.chatKey \notin AllowedKeys(allowlist)
    /\ call.userInfo.username = <<"A", "d", "a">>
    /\ call.config.allowFrom = << <<"a", "d", "a">> >>
    /\ ret.allowed

\* C13: a call of isAllowed leaves the allow-set, the pairing requests, the
\* session rows and the active-session pointers as they were, whatever the
\* input and the outcome.
C13_DecisionIsReadOnly ==
    [][call'.op = "isAllowed"
         => /\ allowlist' = allowlist
            /\ pairing_requests' = pairing_requests
            /\ sessions' = sessions
            /\ active_sessions' = active_sessions]_vars

\* A denied decision was taken with all four tables filled.
C13_Witness ==
    /\ call.op = "isAllowed"
    /\ ~ret.allowed
    /\ ret.reason = "Not in allowlist"
    /\ allowlist # {} /\ pairing_requests # {}
    /\ sessions # {} /\ active_sessions # {}

\* C14: a handler creates a pairing request only when the decision was a
\* denial and the effective policy is "pairing", the reason then being
\* "Pairing required"; under policy "allowlist" a denied contact creates no
\* pairing request and the reason is "Not in allowlist".
C14_PairingOnlyUnderPairingPolicy ==
    [][call'.op \in {"message", "command"} =>
         LET allowed == isAllowed(call'.chatKey, call'.userInfo, call'.config).allowed
             policy == call'.config.dmPolicy IN
         /\ (pairing_requests' \ pairing_requests # {} \/ ret'.invoked = "generateCode")
               => (~allowed /\ policy = "pairing" /\ ret'.reason = "Pairing required")
         /\ (policy = "allowlist" /\ ~allowed)
               => /\ pairing_requests' = pairing_requests
                  /\ ret'.invoked \in {"reply", "none"}
                  /\ ret'.reason = "Not in allowlist"]_vars

\* A command of a contact outside the allow-set was refused under policy
\* "allowlist" while another contact's pairing request is stored.
C14_Witness ==
    /\ call.op = "command"
    /\ call.config.dmPolicy = "allowlist"
    /\ ret.reason = "Not in allowlist"
    /\ ret.invoked = "reply"
    /\ pairing_requests # {}

\* Every criterion the binding specifies equals the message's field.
CriteriaHold(binding, message) ==
    \/ binding.match = NoMatch
    \/ /\ Specified(binding.match, "channel") => binding.match.channel = message.channel
       /\ Specified(binding.match, "peer") => binding.match.peer = message.userId
       /\ Specified(binding.match, "group") => binding.match.group = message.groupId

MatchingBindings(bindings, message) ==
    {i \in DOMAIN bindings : CriteriaHold(bindings[i], message)}

BindingsWithoutMatch(bindings) == {i \in DOMAIN bindings : bindings[i].match = NoMatch}

Least(S) == CHOOSE i \in S : \A j \in S : i <= j

\* C15: findAgentId returns the agentId of the first binding, in configured
\* order, all of whose specified criteria equal the message's channel, user
\* id and group id, a binding without criteria matching every message; when
\* no binding matches it returns the default: the agentId of the first
\* binding without match, else the first configured agent.
C15_FirstMatchingBinding ==
    call.op = "findAgentId" =>
        LET matching == MatchingBindings(call.bindings, call.message)
            plain == BindingsWithoutMatch(call.bindings) IN
        ret.agentId =
            IF matching # {} THEN call.bindings[Least(matching)].agentId
            ELSE IF plain # {} THEN call.bindings[Least(plain)].agentId
            ELSE call.agentList[1]

\* Two bindings with criteria: the first fails on the group, the second
\* matches on channel and peer, its group criterion being empty.
C15_Witness ==
    /\ call.op = "findAgentId"
    /\ Len(call.bindings) = 2
    /\ call.bindings[1] = AgentBinding("ghost", [group |-> "g1"])
    /\ call.message = RoutedMessage("telegram", "1", NoGroup)
    /\ call.bindings[2] =
          AgentBinding("coder", [channel |-> "telegram", peer |-> "1", group |-> ""])
    /\ ret.agentId = "coder"

\* C16: when the agentId the bindings resolve has no profile among the
\* configured agents, routeMessage fails and returns no profile.
C16_UnknownAgentFails ==
    (call.op = "routeMessage"
       /\ findAgentId(Router(call.agentList, call.bindings), call.message.channel,
                      call.message.userId, call.message.groupId)
            \notin {call.agentList[i] : i \in DOMAIN call.agentList})
    => ret.threw

\* The segments of a key form: a numeric segment is a non-empty string of
\* digits.
Numeric(segment) == segment # <<>> /\ \A i \in 1..Len(segment) : segment[i] \in Digits

\* C17: for every tuple (platform telegram or discord, optional botId,
\* isGroup, id, optional sessionName other than 'main') with colon-free
\* parts, parseChatKey(buildChatKey(x)) returns x: the same botId or none,
\* the same id, isGroup and sessionName.
C17_DecodeOfEncode ==
    (call.op = "roundTrip" /\ call.x.sessionName # Main)
    => ret.decoded = ParsedKey(call.x.channel, call.x.botId, call.x.id,
                               call.x.sessionName, call.x.isGroup)

\* C18: for every such tuple, buildChatKey of the fields of
\* parseChatKey(buildChatKey(x)) is the string buildChatKey(x), and no
\* segment of the string is the session name 'main'.
C18_EncodeDecodeEncode ==
    call.op = "roundTrip"
    => /\ ret.reencoded = ret.encoded
       /\ \A i \in DOMAIN split(ret.encoded) : split(ret.encoded)[i] # Main

C20_SwitchOnlyToExisting ==
    [][call'.op = "switchSession" =>
          LET exists == \E r \in sessions :
                            r.chatKey = call'.chatKey /\ r.sessionName = call'.sessionName
          IN /\ ret'.success = exists
             /\ sessions' = sessions
             /\ exists =>
                   /\ {a \in active_sessions' : a.chatKey = call'.chatKey}
                         = {[chatKey |-> call'.chatKey, sessionName |-> call'.sessionName]}
                   /\ {a \in active_sessions' : a.chatKey # call'.chatKey}
                         = {a \in active_sessions : a.chatKey # call'.chatKey}
             /\ ~exists => active_sessions' = active_sessions]_vars

C20_Witness ==
    /\ call.op = "switchSession"
    /\ call.sessionName = "main"
    /\ ~ret.success
    /\ getActiveSessionName(call.chatKey) = "work"
    /\ getSession(call.chatKey, "work") # NoSession
    /\ getSession(call.chatKey, "main") = NoSession

Bound(table, chatKey, sessionName) ==
    \E r \in SessionRows(table, chatKey, sessionName) : ~startsWithCcb(r.sdkSessionId)

RECURSIVE BlockChunks(_)
BlockChunks(content) ==
    IF content = <<>> THEN <<>>
    ELSE (IF Head(content).type = "text" THEN <<Chunk("text", Head(content).text)>>
          ELSE IF Head(content).type = "tool_use"
          THEN <<Chunk("tool_use", Head(content).name)>>
          ELSE <<>>) \o BlockChunks(Tail(content))

\* C23: for every event of the port, sendMessage yields one text chunk for
\* each text block and one toolUse chunk for each tool-use block of the
\* event, in order and unchanged, and nothing for a result event.
C23_EveryBlockForwarded ==
    [][call'.op = "portEvent" =>
          turns'[call'.slot].out
             = turns[call'.slot].out
                 \o (IF call'.event.type = "assistant"
                     THEN BlockChunks(call'.event.content)
                     ELSE <<>>)]_vars

\* C24: a sendMessage whose options.agentId names a configured agent runs
\* the turn with that agent, whatever the router resolves; one whose
\* agentId names no configured agent yields one error chunk and nothing
\* else, never calls the port, and changes no session row and no pointer.
C24_AgentOverride ==
    [][/\ call'.op = "sendMessage" =>
             LET t == turns'[call'.slot] IN
             /\ call'.agentId \in AgentIds
                   => (t.pc = "streaming" /\ t.agentId = call'.agentId)
             /\ (call'.agentId \notin AgentIds /\ call'.agentId # NoAgent)
                   => /\ t.pc = "error"
                      /\ t.out = <<Chunk("error", "Unknown agent")>>
                      /\ t.events = 0
                      /\ sessions' = sessions
                      /\ active_sessions' = active_sessions
       /\ \A s \in Slots :
             (turns[s].pc = "error" /\ turns[s].agentId = NoAgent)
                => turns'[s] \in {turns[s], IdleTurn}]_vars

C24_Witness ==
    /\ call.op = "sendMessage"
    /\ call.agentId = "coder"
    /\ routeMessage(call.chatKey) # "coder"
    /\ turns[1].pc = "streaming"
    /\ turns[1].agentId = "coder"
    /\ getActiveSessionName(call.chatKey) = "work"

\* C25: execute on a command name that, in lower case, is no registered
\* name or alias returns false, throws nothing and invokes no handler; on a
\* registered name or alias, in whatever case, it returns true and invokes
\* once the handler of a definition with that name or alias.
C25_DispatchByName ==
    call.op = "execute"
    => LET typed == toLowerCase(call.command)
           owners == {i \in DOMAIN CommandDefinitions :
                        \/ CommandDefinitions[i].name = typed
                        \/ \E j \in DOMAIN CommandDefinitions[i].aliases :
                               CommandDefinitions[i].aliases[j] = typed}
       IN /\ ~ret.threw
          /\ ret.handled = (owners # {})
          /\ owners = {} => ret.invoked = <<>>
          /\ owners # {} =>
                /\ Len(ret.invoked) = 1
                /\ \E i \in owners : CommandDefinitions[i].handler = ret.invoked[1]

C25_Witness ==
    /\ call.op = "execute"
    /\ call.command = <<"R", "E", "S", "E", "T">>
    /\ ret.handled
    /\ ret.invoked = <<"new">>

\* C26: for every chat text the adapter passes on what CommandParser.parse
\* defines - the same verdict on whether it is a command, the same command
\* name (lower case, '@handle' stripped) and the same args - and the text
\* '/help@bot' runs the help handler.
C26_AdapterParsesLikeParser ==
    call.op = "handleText"
    => /\ ret.adapter = ret.parser
       /\ call.text = <<"/", "h", "e", "l", "p", "@", "b", "o", "t">> => ret.executed.invoked = <<"help">>

\* C27: when '/agent <id>' has just succeeded in a chat, the next plain
\* message of that chat runs with agent <id>.
C27_AgentCommandSelectsAgent ==
    [][(call.op = "agent" /\ ret.success
          /\ call'.op = "sendMessage" /\ call'.chatKey = call.chatKey)
       => turns'[call'.slot].agentId = call.args[1]]_vars

\* C28: the handle of every cache entry is the handle of the stored row of
\* its (chatKey, sessionName), so that getOrCreateSession, which returns
\* the entry when there is one, returns the stored handle.
C28_CacheAgreesWithStore ==
    \A k \in DOMAIN activeSessions :
        \A r \in SessionRows(sessions, activeSessions[k].chatKey,
                               activeSessions[k].sessionName) :
            activeSessions[k].id = r.sdkSessionId

\* One chat's rows under upserts with either agent, turns and the clock.
NextUpsert ==
    \/ \E sn \in SessionNames, a \in AgentIds :
          createNamedSessionCall("telegram:1", sn, a)
    \/ sendMessageCall(1, "telegram:1", "", "coder")
    \/ Logged(portEvent(1, ResultEvent("uuid-1")), "port")
    \/ Logged(sendMessageFinish(1), "port")
    \/ Logged(endTurn(1), "port")
    \/ Tick(1) /\ call' = Call("tick", <<>>, "") /\ ret' = Void

SpecUpsert == Init /\ [][NextUpsert]_vars

\* C30: saveSession on an existing (chatKey, sessionName) row leaves the row's
\* id, agentId, workspace and createdAt as the first insert set them, also
\* when another agentId (and its workspace) is passed; only sdkSessionId and
\* lastActive may change, and no other row changes.
C30_UpsertKeepsFirstInsert ==
    [][\A r \in sessions :
          /\ \A q \in sessions' :
                (q.chatKey = r.chatKey /\ q.sessionName = r.sessionName)
                   => /\ q.id = r.id
                      /\ q.agentId = r.agentId
                      /\ q.workspace = r.workspace
                      /\ q.createdAt = r.createdAt
          /\ (/\ call'.op = "createNamedSession"
              /\ ~(r.chatKey = call'.chatKey /\ r.sessionName = call'.sessionName))
                => r \in sessions']_vars

\* C30 witness: createNamedSession with another agent was applied to a row
\* inserted earlier; the row has the new placeholder and a later lastActive,
\* and still the first agent.
C30_Witness ==
    /\ call.op = "createNamedSession"
    /\ ret.replaced # NoSession.sdkSessionId
    /\ LET r == getSession(call.chatKey, call.sessionName) IN
       /\ r # NoSession
       /\ r.agentId # call.agentId
       /\ r.sdkSessionId # ret.replaced
       /\ r.createdAt < r.lastActive

\* C7: with one turn at a time, once a turn on (chatKey, sessionName) ended
\* with done after a result event carrying handle h, the next turn on that
\* key passes h as its resume token, unless deleteSession, resetChat or
\* createNamedSession touched the key in between; a restart of the process
\* does not change this.
C7_NextTurnResumes ==
    [][\A s \in Slots :
          TurnStarts(s) =>
            LET k == Key(turns'[s].chatKey, turns'[s].sessionName) IN
            recorded[k] # NoHandle => turns'[s].resume = recorded[k]]_vars

\* A turn resumes with the handle the previous turn recorded, the cache
\* being empty.
C7_Witness ==
    \E s \in Slots :
        /\ turns[s].pc = "streaming"
        /\ turns[s].resume # NoHandle
        /\ turns[s].resume = recorded[Key(turns[s].chatKey, turns[s].sessionName)]
        /\ activeSessions = EmptyMap

\* C8: the first sendMessage on an unseen (chatKey, sessionName) creates the
\* row with a placeholder handle before the turn runs.
C8_FirstMessageCreatesPlaceholder ==
    [][\A s \in Slots :
          (TurnStarts(s)
             /\ SessionRows(sessions, turns'[s].chatKey, turns'[s].sessionName) = {})
          => \E r \in SessionRows(sessions', turns'[s].chatKey, turns'[s].sessionName) :
                startsWithCcb(r.sdkSessionId)]_vars

ErrorChunks(out) == {i \in DOMAIN out : out[i].type = "error"}

DoneChunks(out) == {i \in DOMAIN out : out[i].type = "done"}

\* C9: a turn whose port fails ends with exactly one error chunk, the last
\* of the stream, and no done chunk; no step of the turn up to and including
\* the failure changes the sessions table, so the row of (chatKey,
\* sessionName) - existence, handle, lastActive - is as the turn found it.
C9_PortFailureLeavesRow ==
    [][\A s \in Slots :
          /\ (turns'[s] # turns[s] /\ turns'[s].pc \in {"streaming", "error"})
                => sessions' = sessions
          /\ (turns[s].pc = "streaming" /\ turns'[s].pc = "error") =>
                LET out == turns'[s].out IN
                /\ Cardinality(ErrorChunks(out)) = 1
                /\ out[Len(out)].type = "error"
                /\ DoneChunks(out) = {}]_vars

\* The port failed after a result event with a new handle, on a session
\* whose row is older than the failure.
C9_Witness ==
    \E s \in Slots :
        /\ turns[s].pc = "error"
        /\ turns[s].result # NoHandle
        /\ \E r \in SessionRows(sessions, turns[s].chatKey, turns[s].sessionName) :
              /\ r.lastActive < now
              /\ r.sdkSessionId # turns[s].result

\* C10: at most one row per (chatKey, sessionName).
C10_OneRowPerKey ==
    \A r1, r2 \in sessions :
        (r1.chatKey = r2.chatKey /\ r1.sessionName = r2.sessionName) => r1 = r2

\* Two overlapping turns on one key have both saved, with different handles.
C10_Witness ==
    /\ \A s \in Slots : turns[s].pc = "done" /\ turns[s].chatKey = "telegram:1"
                          /\ turns[s].sessionName = "main"
    /\ turns[1].result # turns[2].result
    /\ turns[1].result # NoHandle /\ turns[2].result # NoHandle
    /\ SessionRows(sessions, "telegram:1", "main") # {}

----------------------------------------------------------------------------
(* The pairing ledger and the allow-set under operator and contact calls *)

InitPairing == Init

Ttls == {0, DEFAULT_EXPIRY_MS}

NextPairing ==
    \/ \E ck \in ChatKeys, u \in UserIds, ttl \in Ttls, b \in RandomBytesPool :
          generateCode(ck, u, ttl, b)
    \/ \E c \in TypedCodes : approve(c)
    \/ \E c \in TypedCodes : reject(c)
    \/ cleanup
    \/ \E ck \in ChatKeys : add(ck)
    \/ \E ck \in ChatKeys : remove(ck)
    \/ \E d \in TickSteps : Tick(d) /\ call' = Call("tick", <<>>, "") /\ ret' = Void

SpecPairing == InitPairing /\ [][NextPairing]_vars

\* The pairing ledger under issue, approve, reject and the clock.
NextReap ==
    \/ \E ck \in ChatKeys, u \in UserIds, ttl \in Ttls, b \in RandomBytesPool :
          generateCodeCall(ck, u, ttl, b)
    \/ \E c \in TypedCodes : approve(c)
    \/ \E c \in TypedCodes : reject(c)
    \/ \E d \in TickSteps : Tick(d) /\ call' = Call("tick", <<>>, "") /\ ret' = Void

SpecReap == InitPairing /\ [][NextReap]_vars

\* C29 as stated: a stored request whose TTL has passed is answered by approve
\* with the expired failure, also right after a generateCode call that issued
\* another code.
C29_ExpiredAlsoAfterGenerate ==
    [][/\ call'.op = "approve" =>
            LET r == getPairingRequest(toUpperCase(call'.code)) IN
            (r # NoRequest /\ now > r.expiresAt)
               => (~ret'.success /\ ret'.reason = ExpiredReason)
       /\ call'.op = "generateCode" =>
            \A r \in pairing_requests :
               (now > r.expiresAt /\ r.code # call'.code)
                  => (ApproveOutcome(r.code).ret.reason = ExpiredReason)']_vars

\* C29: approve(code) on a request whose TTL has passed returns the expired
\* failure while the row is stored; once a generateCode call has run after
\* the expiry the row is reaped, and approve(code) returns the not-found
\* failure ('Invalid or expired pairing code').
C29_ExpiredUntilReaped ==
    [][/\ call'.op = "approve" =>
            LET r == getPairingRequest(toUpperCase(call'.code)) IN
            (r # NoRequest /\ now > r.expiresAt)
               => (~ret'.success /\ ret'.reason = ExpiredReason)
       /\ call'.op = "generateCode" =>
            \A r \in pairing_requests :
               (now > r.expiresAt /\ r.code # call'.code)
                  => (ApproveOutcome(r.code).ret.reason = NotFoundReason)']_vars

\* C29 witness: a generateCode call reaped an expired code that was never
\* approved or rejected, and approve of that code now finds nothing.
C29_Witness ==
    /\ call.op = "generateCode"
    /\ ret.reaped # {}
    /\ \A c \in ret.reaped :
          /\ c # call.code
          /\ \A d \in consumed : toUpperCase(d) # c
          /\ ApproveOutcome(c).ret.reason = NotFoundReason

----------------------------------------------------------------------------
(* Claims on the pairing ledger and the allow-set *)

\* C3: a pairing code is single-use. Once approve(code) or reject(code) has
\* succeeded, every later approve(code) returns the not-found failure, every
\* later reject(code) returns false, and neither changes the allow-set
\* (until the same code is issued again).
C3_SingleUse ==
    [][(call'.op \in {"approve", "reject"} /\ call'.code \in consumed)
         => /\ ~ret'.success
            /\ (call'.op = "approve" => ret'.reason = NotFoundReason)
            /\ allowlist' = allowlist]_vars

\* C4: pairing codes are case-insensitive. approve(c') and reject(c') on a
\* letter-case variant c' of a stored code c return what approve(c) and
\* reject(c) return and leave the store as approve(c) and reject(c) leave it,
\* the request row deleted.
C4_CaseInsensitive ==
    [][/\ call'.op = "approve" =>
            LET canon == ApproveOutcome(toUpperCase(call'.code)) IN
            /\ ret' = canon.ret
            /\ pairing_requests' = canon.requests
            /\ allowlist' = canon.allow
       /\ call'.op = "reject" =>
            LET canon == RejectOutcome(toUpperCase(call'.code)) IN
            /\ ret' = canon.ret
            /\ pairing_requests' = canon.requests]_vars

\* C5: a chat key enters the allow-set only by add(chatKey) or by an approve
\* that succeeds on a stored request for that chat key that has not expired,
\* and remove(chatKey) takes it out; generateCode, reject, expiry, cleanup and
\* a failing approve add nothing.
C5_AllowSetProvenance ==
    [][/\ \A ck \in AllowedKeys(allowlist') \ AllowedKeys(allowlist) :
            \/ call'.op = "add" /\ call'.chatKey = ck
            \/ /\ call'.op = "approve"
               /\ ret'.success
               /\ LET r == getPairingRequest(toUpperCase(call'.code)) IN
                  r # NoRequest /\ r.chatKey = ck /\ ~(now > r.expiresAt)
       /\ call'.op = "remove" => call'.chatKey \notin AllowedKeys(allowlist')
       /\ call'.op \in {"generateCode", "reject", "cleanup", "tick"}
            => allowlist' = allowlist
       /\ (call'.op = "approve" /\ ~ret'.success) => allowlist' = allowlist]_vars

\* C5 witness: an approve succeeded and its chat key is in the allow-set.
C5_Witness ==
    /\ call.op = "approve"
    /\ ret.success
    /\ ret.chatKey \in AllowedKeys(allowlist)

\* C6: approve(code) after the request's expiresAt returns the expired
\* failure, adds nothing to the allow-set and deletes the request row.
C6_ExpiredApproveDeletes ==
    [][(/\ call'.op = "approve"
        /\ getPairingRequest(toUpperCase(call'.code)) # NoRequest
        /\ now > getPairingRequest(toUpperCase(call'.code)).expiresAt)
         => /\ ret'.reason = ExpiredReason
            /\ allowlist' = allowlist
            /\ \A r \in pairing_requests' : r.code # toUpperCase(call'.code)]_vars

\* The texts of the text chunks of a stream.
RECURSIVE TextsYielded(_)
TextsYielded(out) ==
    IF out = <<>> THEN <<>>
    ELSE IF Head(out).type = "text" THEN <<Head(out).text>> \o TextsYielded(Tail(out))
    ELSE TextsYielded(Tail(out))

\* C31: when the message handler has returned, the texts it passed to
\* adapter.send for the turn, the error notice aside, concatenate to the
\* concatenation of the text chunks sendMessage yielded, whether the stream
\* ended with done or with an error chunk.
C31_EveryTextChunkSent ==
    (/\ call.op = "message"
     /\ ret.returned
     /\ turns[call.slot].pc \in {"done", "error"})
       => LET out == turns[call.slot].out
              sent == IF turns[call.slot].pc = "error"
                      THEN SubSeq(ret.sent, 1, Len(ret.sent) - 1)
                      ELSE ret.sent IN
          joinTexts(sent) = joinTexts(TextsYielded(out))

\* C32: a chat key has at most one pending (stored, unexpired) pairing
\* request: an unauthorized message or command from a chat key that already
\* has one does not create another.
C32_OnePendingRequestPerChat ==
    \A ck \in ChatKeys :
        Cardinality({r \in listPendingPairingRequests : r.chatKey = ck}) <= 1

\* C33: when resetChat(chatKey) ran while a sendMessage turn of chatKey was
\* in flight and that turn has finished, no session row of chatKey holds the
\* handle of that turn.
C33_ResetForgetsTurnInFlight ==
    call.op = "resetChat" =>
        \A s \in ret.inflight :
            turns[s].pc = "done" =>
                \A r \in sessions :
                    r.chatKey = call.chatKey => r.sdkSessionId # turns[s].sessionId

\* C34: when a sendMessage turn that got a result event completes, also
\* while another turn on the same (chatKey, sessionName) runs or has
\* completed, the key has exactly one row afterwards and the row holds the
\* handle of the turn that has just finished: of overlapping turns the one
\* that finishes last leaves its handle, and no second row is created.
C34_LastFinisherWins ==
    [][\A s \in Slots :
          (/\ turns[s].pc = "streaming"
           /\ turns'[s].pc = "done"
           /\ turns[s].result # NoHandle)
             => LET rows == SessionRows(sessions', turns[s].chatKey, turns[s].sessionName) IN
                /\ Cardinality(rows) = 1
                /\ \A r \in rows : r.sdkSessionId = turns[s].result]_vars

\* C34 witness: two turns that both started on the unseen key have both
\* completed with different handles and one row was ever inserted, so the
\* turns overlapped; the row holds the handle of the second slot's turn.
C34_Witness ==
    /\ \A s \in Slots : /\ turns[s].pc = "done"
                         /\ turns[s].resumeSessionId = NoHandle
                         /\ Key(turns[s].chatKey, turns[s].sessionName) = Key("telegram:1", "main")
    /\ turns[1].result = SdkHandle("uuid-1")
    /\ turns[2].result = SdkHandle("uuid-2")
    /\ nextId = 2
    /\ SessionRows(sessions, "telegram:1", "main") # {}
    /\ \A r \in SessionRows(sessions, "telegram:1", "main") :
            r.sdkSessionId = SdkHandle("uuid-2")

\* C35: getOrCreateSession(chatKey, agentConfig, sessionName) returns a
\* session whose chatKey and sessionName are its arguments, also for a chat
\* key that is another chat key followed by ':' and a session name.
C35_ReturnsTheSessionAskedFor ==
    call.op = "getOrCreateSession" =>
        /\ ret.session.chatKey = call.chatKey
        /\ ret.session.sessionName = call.sessionName

\* C36: at every clock value approve(code) succeeds if and only if the
\* request with that code is in listPending(), the instant now = expiresAt
\* included.
C36_PendingIffApprovable ==
    \A c \in IssuedCodes :
        ApproveOutcome(c).ret.success
            <=> (\E r \in listPendingPairingRequests : r.code = c)

\* The chunks of a stream that are done or error.
Terminals(out) == {i \in 1..Len(out) : out[i].type \in {"done", "error"}}

C38_NoCachedDecision ==
    [][/\ call'.op \in {"remove", "revoke"}
            => call'.chatKey \notin AllowedKeys(allowlist')
       /\ (/\ call'.op \in {"message", "command"}
           /\ call'.config.dmPolicy \in {"pairing", "allowlist"}
           /\ call'.chatKey \notin AllowedKeys(allowlist)
           /\ ~isInConfigAllowlist(call'.userInfo, call'.config))
             => /\ ~ret'.success
                /\ ret'.invoked \notin {"sendMessage", "execute", "unknown"}
                /\ sessionVars' = sessionVars
                /\ allowlist' = allowlist]_vars

\* C38 witness: a chat whose code had been approved is no longer in the
\* allow-set, and its message under the pairing policy was denied.
C38_Witness ==
    /\ call.op = "message"
    /\ call.config.dmPolicy = "pairing"
    /\ ~isInConfigAllowlist(call.userInfo, call.config)
    /\ ~ret.success
    /\ consumed # {}
    /\ call.chatKey \notin AllowedKeys(allowlist)
    /\ \A s \in Slots : turns[s].pc = "idle"

====
